---- MODULE Spec2Model ----
(***************************************************************************)
(* The build coordinator (src/coordinator/main.go): the scheduler loop,    *)
(* the status registry (live map + recent ring), the per-build exit        *)
(* waiter, the work pollers and the image cache.                           *)
(***************************************************************************)
EXTENDS Integers, Sequences, FiniteSets, TLC

\* ------------------------------------------------------------------------
\* Bounds of the model
\* ------------------------------------------------------------------------

\* Values of the -maxbuilds flag explored: 0..MaxCap (the flag's default is 6).
MaxCap == 2

\* The container runtime creates at most this many containers in a run; once
\* it is used up "docker run" fails, as it may at any time.
MaxLaunch == 2

\* Last-Modified tags are 1..MaxTag; a URL's tag only grows (it is the time
\* of the last upload). 0 stands for the empty string.
MaxTag == 2

\* The number of containers of a previous run that are still running when the
\* coordinator starts.
MaxSurvivors == 2

\* The number of goroutines that call masterKey().
MaxKeyCallers == 3
\* startWatching is called at most this many times for a watch configuration
MaxStarts == 3

\* The number of instances a zone lists.
MaxVMs == 2

\* The number of candidates the scheduler receives in a run.
MaxReceived == 4

\* The number of Write calls on the build's output in a run.
MaxWrites == 3

\* The number of bytes of an HMAC sum (md5.Size is 16).
DigestLen == 1

\* ------------------------------------------------------------------------
\* Configuration
\* ------------------------------------------------------------------------

\* const maxStatusDone = 30
maxStatusDone == 30

\* const maxBufferSize = 2 << 20
maxBufferSize == 2097152

\* The builders table after the addBuilder calls of main (two of its rows);
\* addBuilder gives every "linux-" builder without an image the base image.
builders ==
  [b \in {"linux-386", "linux-amd64"} |-> [name |-> b, image |-> "gobuilders/linux-x86-base"]]

BuilderNames == DOMAIN builders

\* Revisions the dashboard may hand out ("" is findWork's "nothing to do").
Revs == {"aaaa"}

\* builderRev{name, rev}
builderRev(name, rev) == [name |-> name, rev |-> rev]

BuilderRevs == {builderRev(n, r) : n \in BuilderNames, r \in Revs}

\* Exit codes of a container.
ExitCodes == {0, 1}

\* The nil *buildStatus.
Nil == 0

\* The images table (two of its rows): the builders' base image and the
\* commit watcher's image.
Images == {"gobuilders/linux-x86-base", "go-commit-watcher"}

\* A nil error, and a non-nil one.
NoErr == "nil"
SomeErr == "error"

VARIABLES
  maxBuilds,    \* *maxBuilds, the flag's value
  status,       \* map[builderRev]*buildStatus: builderRev -> index into bs
  statusDone,   \* []*buildStatus: sequence of indexes into bs
  bs,           \* the buildStatus objects allocated so far, by identity
  containers,   \* the runtime's containers, by id: state and exit code
  waiter,       \* the exit waiter goroutine of each build: its position
  streamer,     \* the log streamer goroutines started, one per build
  sched,        \* the scheduler loop: position, candidate in hand, st, err
  pollers,      \* each findWorkLoop: position and the rev it is sending
  now,          \* the clock read by time.Now()
  launchLimit,  \* how many containers the runtime will ever create
  statusMu,     \* statusMu: the goroutine that holds it, "" when free
  handler,      \* a handleStatus request: position and what it has read
  hist,         \* history: candidates received per builder, calls of
                \* startBuilding, builders turned away at the cap
  vm,           \* cleanZoneVMs: the instances listed, the position of the
                \* pass, the clock, the deletes issued
  keyOnce,      \* keyOnce and the goroutines calling masterKey
  lk,           \* the mutexes' holders and each goroutine's position in
                \* its sequence of lock, unlock and I/O operations
  poll,         \* one findWorkLoop iteration: the dashboard's answer and
                \* what was sent
  vmr,          \* cleanUpOldVMs: the scopes it found, its place in the cycle
                \* over the zones, what each zone's pass came to
  watch,        \* per watch configuration: startWatching calls in progress,
                \* goroutines waiting for a watcher, restart timers pending
  images,       \* map[string]*imageInfo: lastMod and the holder of mu
  remote,       \* the Last-Modified tag each image's URL currently serves
  cu,           \* goroutines calling condUpdateImage: position and locals
  loads,        \* history: "docker load" runs, per image and tag seen by Head
  output,       \* st.output of one buildStatus: its bytes, as runs
  offered,      \* history: all the bytes passed to its Write so far
  wret,         \* what the last Write returned: n and err
  nwrites,      \* history: the number of Write calls so far
  masterKeyCache, \* the master key
  hmacSum,      \* h.Sum(nil) of builderKey for the build's builder
  resp          \* the body of the last /logs response for the build

coordVars == <<maxBuilds, status, statusDone, bs, containers, waiter, streamer,
               sched, pollers, now, launchLimit>>

imageVars == <<images, remote, cu, loads>>

outVars == <<output, offered, wret, nwrites, masterKeyCache, hmacSum, resp>>

regVars == <<statusMu, handler, hist>>

sysVars == <<vm, keyOnce, lk, poll, vmr, watch>>

vars == <<maxBuilds, status, statusDone, bs, containers, waiter, streamer,
          sched, pollers, now, launchLimit, images, remote, cu, loads,
          output, offered, wret, nwrites, masterKeyCache, hmacSum, resp,
          statusMu, handler, hist, vm, keyOnce, lk, poll, vmr, watch>>

\* ------------------------------------------------------------------------
\* Status registry
\* ------------------------------------------------------------------------

\* len(status)
numCurrentBuilds == Cardinality(DOMAIN status)

\* mayBuildRev with the cap test off by one.
mayBuildRev_AtCap(work) ==
  /\ Cardinality(DOMAIN status) <= maxBuilds
  /\ work \notin DOMAIN status

\* mayBuildRev without the test for a live entry.
mayBuildRev_NoKeyTest(work) ==
  Cardinality(DOMAIN status) < maxBuilds

\* mayBuildRev: len(status) < *maxBuilds && status[work] == nil
mayBuildRev(work) ==
  /\ Cardinality(DOMAIN status) < maxBuilds
  /\ work \notin DOMAIN status

\* setStatus: status[work] = st
setStatus(work, st) ==
  status' = [k \in DOMAIN status \cup {work} |-> IF k = work THEN st ELSE status[k]]

\* The reslice without the copy before it: the newest entry goes.
dropOldest_NoCopy(ring) == SubSeq(ring, 1, Len(ring) - 1)

\* copy(statusDone, statusDone[1:]); statusDone = statusDone[:len(statusDone)-1]
dropOldest(ring) == SubSeq(ring, 2, Len(ring))


\* markDone without the "if !ok { return }": an absent key's nil is appended.
markDone_NoPresenceTest(work) ==
  /\ status' = [k \in DOMAIN status \ {work} |-> status[k]]
  /\ statusDone' =
       Append(IF Len(statusDone) = maxStatusDone
              THEN SubSeq(statusDone, 2, Len(statusDone)) ELSE statusDone,
              IF work \in DOMAIN status THEN status[work] ELSE Nil)

\* markDone without "delete(status, work)".
markDone_NoDelete(work) ==
  IF work \notin DOMAIN status
  THEN UNCHANGED <<status, statusDone>>
  ELSE /\ status' = status
       /\ statusDone' =
            Append(IF Len(statusDone) = maxStatusDone
                   THEN SubSeq(statusDone, 2, Len(statusDone)) ELSE statusDone,
                   status[work])

\* markDone: no-op if work is not live; else delete it from status and append
\* its buildStatus to statusDone, dropping the oldest entry of a full ring.
markDone(work) ==
  IF work \notin DOMAIN status
  THEN UNCHANGED <<status, statusDone>>
  ELSE /\ status' = [k \in DOMAIN status \ {work} |-> status[k]]
       /\ statusDone' =
            Append(IF Len(statusDone) = maxStatusDone
                   THEN dropOldest(statusDone) ELSE statusDone,
                   status[work])

\* The index of the first entry of the ring whose builderRev is work, 0 if none.
firstMatch(ring, work) ==
  LET hits == {i \in 1..Len(ring) : bs[ring[i]].builderRev = work}
  IN IF hits = {} THEN 0 ELSE CHOOSE i \in hits : \A j \in hits : i <= j

\* getStatus scanning the ring before the live map.
getStatus_RingFirst(work) ==
  IF firstMatch(statusDone, work) /= 0 THEN statusDone[firstMatch(statusDone, work)]
  ELSE IF work \in DOMAIN status THEN status[work]
  ELSE Nil

\* getStatus: the live entry if any, else the first match in statusDone, else nil
getStatus(work) ==
  IF work \in DOMAIN status THEN status[work]
  ELSE IF firstMatch(statusDone, work) = 0 THEN Nil
  ELSE statusDone[firstMatch(statusDone, work)]

\* ------------------------------------------------------------------------
\* Image cache: condUpdateImage
\* ------------------------------------------------------------------------

\* What http.Head / http.Get may answer while the URL serves tag: a transport
\* error, a non-200 response, or 200 with Last-Modified: tag.
Responses(tag) ==
  { [err |-> SomeErr, code |-> 0, tag |-> 0],
    [err |-> NoErr, code |-> 404, tag |-> 0],
    [err |-> NoErr, code |-> 200, tag |-> tag] }

\* What cmd.Run() of "docker load" may return.
RunResults == {NoErr, SomeErr}

\* Lines 448-457: after http.Head. "error": return an error; "nil": the tag
\* is the stored one, return nil; "get": go on to fetch the body.
afterHead(lastMod, hd) ==
  IF hd.err /= NoErr THEN "error"
  ELSE IF hd.code /= 200 THEN "error"
  ELSE IF hd.tag = lastMod THEN "nil"
  ELSE "get"

\* Lines 459-462: after http.Get. err != nil || res.StatusCode != 200
afterGet(gt) ==
  IF gt.err /= NoErr \/ gt.code /= 200 THEN "error" ELSE "load"

\* Lines 473-476: "if cmd.Run(); err != nil { return err }". The condition
\* tests err, which still holds http.Get's error; Run's result is dropped.
afterLoad(err, runErr) ==
  IF err /= NoErr THEN "error" ELSE "nil"

\* Line 477: ii.lastMod = res.Header.Get("Last-Modified"), res being the
\* response of http.Get.
storedTag(hd, gt) == gt.tag

\* condUpdateImage as one call, the mutex held throughout: the error
\* returned and the new lastMod, with what the call went through: head is
\* afterHead's answer, get is afterGet's ("none": no http.Get), run is what
\* cmd.Run() returned ("none": "docker load" did not run).
condUpdateImage(lastMod, hd, gt, runErr) ==
  IF afterHead(lastMod, hd) /= "get"
  THEN [err |-> IF afterHead(lastMod, hd) = "nil" THEN NoErr ELSE SomeErr,
        lastMod |-> lastMod,
        head |-> afterHead(lastMod, hd), get |-> "none", run |-> "none"]
  ELSE IF afterGet(gt) = "error"
  THEN [err |-> SomeErr, lastMod |-> lastMod,
        head |-> "get", get |-> "error", run |-> "none"]
  ELSE IF afterLoad(gt.err, runErr) = "error"
  THEN [err |-> gt.err, lastMod |-> lastMod,
        head |-> "get", get |-> "load", run |-> runErr]
  ELSE [err |-> NoErr, lastMod |-> storedTag(hd, gt),
        head |-> "get", get |-> "load", run |-> runErr]

\* The uploader replaces an image: its URL serves a later tag from now on.
RemoteChange(img) ==
  /\ remote[img] < MaxTag
  /\ remote' = [remote EXCEPT ![img] = @ + 1]
  /\ UNCHANGED <<images, cu, loads>>
  /\ UNCHANGED coordVars
  /\ UNCHANGED outVars
  /\ UNCHANGED regVars
  /\ UNCHANGED sysVars

\* Goroutines that call condUpdateImage at the same time.
Callers == {"g1", "g2"}

\* A goroutine outside condUpdateImage.
IdleCall ==
  [pc |-> "idle", img |-> "", headTag |-> 0, getTag |-> 0, getErr |-> NoErr,
   run |-> "none", skipped |-> FALSE, err |-> NoErr]

\* condUpdateImage without the mutex.
lockFree_NoMutex(img) == TRUE

\* ii.mu.Lock() goes through when no goroutine holds the image's mutex.
lockFree(img) == images[img].mu = ""

\* A goroutine calls condUpdateImage(img).
CuCall(c, img) ==
  /\ cu[c].pc = "idle"
  /\ cu' = [cu EXCEPT ![c] = [IdleCall EXCEPT !.pc = "lock", !.img = img]]
  /\ UNCHANGED <<images, remote, loads>>
  /\ UNCHANGED coordVars
  /\ UNCHANGED outVars
  /\ UNCHANGED regVars
  /\ UNCHANGED sysVars

\* ii.mu.Lock(); defer ii.mu.Unlock()
CuLock(c) ==
  /\ cu[c].pc = "lock"
  /\ lockFree(cu[c].img)
  /\ images' = [images EXCEPT ![cu[c].img].mu = c]
  /\ cu' = [cu EXCEPT ![c].pc = "head"]
  /\ UNCHANGED <<remote, loads>>
  /\ UNCHANGED coordVars
  /\ UNCHANGED outVars
  /\ UNCHANGED regVars
  /\ UNCHANGED sysVars

\* http.Head and the comparison with ii.lastMod; a return unlocks the mutex.
CuHead(c) ==
  /\ cu[c].pc = "head"
  /\ \E hd \in Responses(remote[cu[c].img]) :
     LET img == cu[c].img
         next == afterHead(images[img].lastMod, hd)
     IN
     /\ IF next = "get"
        THEN /\ cu' = [cu EXCEPT ![c].pc = "get", ![c].headTag = hd.tag]
             /\ UNCHANGED images
        ELSE /\ cu' = [cu EXCEPT ![c].pc = "ret", ![c].headTag = hd.tag,
                                  ![c].skipped = (next = "nil"),
                                  ![c].err = IF next = "nil" THEN NoErr ELSE SomeErr]
             /\ images' = [images EXCEPT ![img].mu = ""]
     /\ UNCHANGED <<remote, loads>>
     /\ UNCHANGED coordVars
     /\ UNCHANGED outVars
     /\ UNCHANGED regVars
     /\ UNCHANGED sysVars

\* http.Get of the body
CuGet(c) ==
  /\ cu[c].pc = "get"
  /\ \E gt \in Responses(remote[cu[c].img]) :
     LET img == cu[c].img
     IN
     /\ IF afterGet(gt) = "load"
        THEN /\ cu' = [cu EXCEPT ![c].pc = "load", ![c].getTag = gt.tag,
                                  ![c].getErr = gt.err]
             /\ UNCHANGED images
        ELSE /\ cu' = [cu EXCEPT ![c].pc = "ret", ![c].err = SomeErr]
             /\ images' = [images EXCEPT ![img].mu = ""]
     /\ UNCHANGED <<remote, loads>>
     /\ UNCHANGED coordVars
     /\ UNCHANGED outVars
     /\ UNCHANGED regVars
     /\ UNCHANGED sysVars

\* cmd.Run() of "docker load", the test that follows it, and the store of
\* ii.lastMod when the call goes on.
CuLoad(c, runErr) ==
  LET img == cu[c].img
      gt == [err |-> cu[c].getErr, code |-> 200, tag |-> cu[c].getTag]
      hd == [err |-> NoErr, code |-> 200, tag |-> cu[c].headTag]
      next == afterLoad(cu[c].getErr, runErr)
  IN /\ cu[c].pc = "load"
     /\ loads' = [loads EXCEPT ![<<img, cu[c].headTag>>] = @ + 1]
     /\ cu' = [cu EXCEPT ![c].pc = "ret", ![c].run = runErr,
                          ![c].err = IF next = "error" THEN cu[c].getErr ELSE NoErr]
     /\ images' = [images EXCEPT
                     ![img].lastMod = IF next = "error" THEN @ ELSE storedTag(hd, gt),
                     ![img].mu = ""]
     /\ UNCHANGED remote
     /\ UNCHANGED coordVars
     /\ UNCHANGED outVars
     /\ UNCHANGED regVars
     /\ UNCHANGED sysVars

\* The caller takes the result.
CuReturn(c) ==
  /\ cu[c].pc = "ret"
  /\ cu' = [cu EXCEPT ![c] = IdleCall]
  /\ UNCHANGED <<images, remote, loads>>
  /\ UNCHANGED coordVars
  /\ UNCHANGED outVars
  /\ UNCHANGED regVars
  /\ UNCHANGED sysVars

InitImages ==
  /\ images = [i \in Images |-> [lastMod |-> 0, mu |-> ""]]
  /\ remote = [i \in Images |-> 1]
  /\ cu = [c \in Callers |-> IdleCall]
  /\ loads = [k \in Images \X (0..MaxTag + 1) |-> 0]

\* ------------------------------------------------------------------------
\* Build output: buildStatus.Write, buildStatus.logs, builderKey
\* ------------------------------------------------------------------------

\* A byte string is held as its runs: a sequence of [c, n], n >= 1 bytes c,
\* neighbouring runs of different bytes. ByteLen is len(p).
RECURSIVE ByteLen(_)
ByteLen(p) == IF p = << >> THEN 0 ELSE Head(p).n + ByteLen(Tail(p))

\* p[:k]
RECURSIVE ByteTake(_, _)
ByteTake(p, k) ==
  IF k <= 0 \/ p = << >> THEN << >>
  ELSE IF Head(p).n >= k THEN <<[c |-> Head(p).c, n |-> k]>>
  ELSE <<Head(p)>> \o ByteTake(Tail(p), k - Head(p).n)

\* p followed by q
ByteCat(p, q) ==
  IF p = << >> THEN q
  ELSE IF q = << >> THEN p
  ELSE IF p[Len(p)].c = q[1].c
  THEN SubSeq(p, 1, Len(p) - 1) \o <<[c |-> q[1].c, n |-> p[Len(p)].n + q[1].n]>> \o Tail(q)
  ELSE p \o q

\* The bytes of p one by one: a sequence of one-character strings.
RECURSIVE ByteString(_)
ByteString(p) ==
  IF p = << >> THEN << >>
  ELSE [i \in 1..Head(p).n |-> Head(p).c] \o ByteString(Tail(p))

\* Write without the ceiling.
Write_NoCeiling(out, p) ==
  [output |-> ByteCat(out, p), n |-> ByteLen(p), err |-> NoErr]

\* buildStatus.Write: p is cut to the room left under maxBufferSize, then
\* st.output.Write(p), which appends and returns len(p), nil.
Write(out, p) ==
  LET q == IF ByteLen(out) + ByteLen(p) > maxBufferSize
           THEN ByteTake(p, maxBufferSize - ByteLen(out))
           ELSE p
  IN [output |-> ByteCat(out, q), n |-> ByteLen(q), err |-> NoErr]

\* strings.Index(s, sub) counted from 1; 0 when sub does not occur in s.
Index(s, sub) ==
  LET at == {i \in 1..(Len(s) - Len(sub) + 1) : SubSeq(s, i, i + Len(sub) - 1) = sub}
  IN IF at = {} THEN 0 ELSE CHOOSE i \in at : \A j \in at : i <= j

\* strings.Replace for a non-empty old: the first n non-overlapping
\* occurrences, found left to right, become new (n < 0: all of them).
RECURSIVE ReplaceOccurrences(_, _, _, _)
ReplaceOccurrences(s, old, new, n) ==
  IF n = 0 \/ Index(s, old) = 0 THEN s
  ELSE LET j == Index(s, old)
       IN SubSeq(s, 1, j - 1) \o new \o
          ReplaceOccurrences(SubSeq(s, j + Len(old), Len(s)), old, new, n - 1)

\* strings.Replace for an empty old: it matches at the start of s and after
\* each character; m matches get new.
RECURSIVE ReplaceEmpty(_, _, _)
ReplaceEmpty(s, new, m) ==
  IF m = 0 THEN s
  ELSE new \o (IF s = << >> THEN << >>
               ELSE <<Head(s)>> \o ReplaceEmpty(Tail(s), new, m - 1))

\* strings.Replace(s, old, new, n)
Replace(s, old, new, n) ==
  IF old = new \/ n = 0 THEN s
  ELSE IF old = << >>
  THEN ReplaceEmpty(s, new, IF n < 0 \/ n > Len(s) + 1 THEN Len(s) + 1 ELSE n)
  ELSE ReplaceOccurrences(s, old, new, n)

\* "BUILDERKEY"
BUILDERKEY == <<"B", "U", "I", "L", "D", "E", "R", "K", "E", "Y">>

\* logs replacing the first occurrence only.
logs_FirstOnly(out, key) == Replace(ByteString(out), key, BUILDERKEY, 1)

\* buildStatus.logs: strings.Replace(string(logs), key, "BUILDERKEY", -1)
logs(out, key) == Replace(ByteString(out), key, BUILDERKEY, -1)

\* The digits of fmt.Sprintf("%x", ...).
HexDigits ==
  <<"0", "1", "2", "3", "4", "5", "6", "7", "8", "9", "a", "b", "c", "d", "e", "f">>

\* "%x" of a byte slice: two lowercase hexadecimal digits per byte.
RECURSIVE Hex(_)
Hex(sum) ==
  IF sum = << >> THEN << >>
  ELSE <<HexDigits[(Head(sum) \div 16) + 1], HexDigits[(Head(sum) % 16) + 1]>> \o Hex(Tail(sum))

\* builderKey: "" without a master key, else the HMAC sum in hexadecimal.
builderKey(master, sum) == IF Len(master) = 0 THEN << >> ELSE Hex(sum)

\* The sums HMAC-MD5 may give, here of DigestLen bytes out of 0xaa, 0xab, 0xba.
DigestBytes == {170, 171, 186}
Digests == [1..DigestLen -> DigestBytes]

\* The master keys: none, or one.
MasterKeys == {<< >>, <<"k">>}

\* What the container prints in one piece when it prints a lot: nothing, one
\* byte, or runs as long as the ceiling, one byte less, one byte more.
BigWrites ==
  { << >>,
    <<[c |-> "a", n |-> 1]>>,
    <<[c |-> "b", n |-> maxBufferSize - 1]>>,
    <<[c |-> "a", n |-> maxBufferSize]>>,
    <<[c |-> "b", n |-> maxBufferSize + 1]>>,
    <<[c |-> "a", n |-> 1], [c |-> "b", n |-> maxBufferSize]>> }

\* What the container prints in one piece when it prints little: one or two
\* hexadecimal digits.
SmallWrites ==
  { <<[c |-> "a", n |-> 1]>>, <<[c |-> "b", n |-> 1]>>,
    <<[c |-> "a", n |-> 2]>>, <<[c |-> "b", n |-> 1], [c |-> "a", n |-> 1]>> }

\* The log streamer's "docker logs -f" hands p to st.Write.
StreamerWrite(p) ==
  /\ nwrites < MaxWrites
  /\ output' = Write(output, p).output
  /\ wret' = [n |-> Write(output, p).n, err |-> Write(output, p).err]
  /\ offered' = ByteCat(offered, p)
  /\ nwrites' = nwrites + 1
  /\ UNCHANGED <<masterKeyCache, hmacSum, resp>>
  /\ UNCHANGED coordVars
  /\ UNCHANGED imageVars
  /\ UNCHANGED regVars
  /\ UNCHANGED sysVars

\* handleLogs for the build: io.WriteString(w, st.logs())
HandleLogs ==
  /\ resp' = [served |-> TRUE, body |-> logs(output, builderKey(masterKeyCache, hmacSum))]
  /\ UNCHANGED <<output, offered, wret, nwrites, masterKeyCache, hmacSum>>
  /\ UNCHANGED coordVars
  /\ UNCHANGED imageVars
  /\ UNCHANGED regVars
  /\ UNCHANGED sysVars

\* A build just started, with master key master and HMAC sum sum.
InitOutput(master, sum) ==
  /\ output = << >>
  /\ offered = << >>
  /\ wret = [n |-> 0, err |-> NoErr]
  /\ nwrites = 0
  /\ masterKeyCache = master
  /\ hmacSum = sum
  /\ resp = [served |-> FALSE, body |-> << >>]

\* ------------------------------------------------------------------------
\* The coordinator: pollers, scheduler loop, builds
\* ------------------------------------------------------------------------

\* The scheduler blocked in its select, nothing in hand.
AtSelect ==
  [pc |-> "select", work |-> builderRev("", ""), st |-> Nil, err |-> NoErr,
   imgErr |-> NoErr, head |-> "none", get |-> "none", run |-> "none"]

\* No handleStatus request is being served.
IdleHandler == [pc |-> "idle", active |-> {}, recent |-> << >>, running |-> 0]

\* The history at the start; on says whether the run keeps it.
NoHist(on) ==
  [on |-> on,
   offers |-> [b \in BuilderNames |-> 0],
   admitted |-> 0,
   denied |-> [b \in BuilderNames |-> "no"]]

\* No pass of cleanZoneVMs has begun.
IdleVM == [pc |-> "idle", list |-> << >>, i |-> 0, now |-> 0, deleted |-> << >>,
           logged |-> 0]

\* The goroutines that call masterKey(), straight or through builderKey().
KeyCallers == 1..MaxKeyCallers

\* keyOnce is new (done = 0, its mutex m free), loadKey has not run, the
\* process has not exited, and no goroutine has called masterKey().
IdleKey ==
  [done |-> FALSE, m |-> 0, runs |-> 0, loaded |-> FALSE, exited |-> FALSE,
   calls |-> [c \in KeyCallers |-> [pc |-> "idle", path |-> "", ret |-> << >>]]]

\* The mutexes: statusMu, the mu of a buildStatus, the mu of its image.
Mutexes == {"statusMu", "st.mu", "ii.mu"}

\* The goroutines that take them: the scheduler, the exit waiter and the log
\* streamer (through Write) of the build, a handleStatus request and a
\* handleLogs request.
LockTasks == {"sched", "waiter", "streamer", "status", "logs"}

\* Every mutex is free and no goroutine has begun a sequence.
IdleLocks ==
  [holder |-> [m \in Mutexes |-> ""],
   pc |-> [t \in LockTasks |-> 0],
   prog |-> [t \in LockTasks |-> << >>]]

\* No answer of the dashboard: what a poller holds before its http.Get.
NoResponse == [getErr |-> NoErr, status |-> 0, decodeErr |-> NoErr, kind |-> "", hash |-> ""]

\* Every findWorkLoop is at its call of findWork and has sent nothing.
IdlePoll ==
  [b \in BuilderNames |->
     [pc |-> "poll", res |-> NoResponse, rev |-> "", err |-> NoErr,
      sent |-> builderRev("", "")]]

\* The zones of the -zones flag, as it is when not given.
Zones == <<"us-central1-a", "us-central1-b", "us-central1-f">>

\* cleanUpOldVMs has not begun: nothing is known of the scopes, no zone's
\* pass has been made, no call to the compute API has been issued.
IdleVMR ==
  [pc |-> "start", onGCE |-> FALSE, scopesErr |-> NoErr, scopes |-> {},
   z |-> 0, insts |-> << >>, i |-> 0,
   results |-> [z \in 1..Len(Zones) |-> "none"],
   visited |-> [z \in 1..Len(Zones) |-> 0],
   listed |-> [z \in 1..Len(Zones) |-> 0],
   issued |-> FALSE, failed |-> FALSE]

\* The repositories watched: the one main adds, and the one it has in a comment.
WatchRepos == {"https://go.googlesource.com/go", "https://code.google.com/p/gofrontend"}

\* startWatching has not been called for the configuration: no call is in
\* progress, no restart timer is pending, no watcher container was run (cs
\* holds the containers' states, wt their waiting goroutines' positions).
IdleWatch ==
  [r \in WatchRepos |->
     [called |-> FALSE, attempts |-> 0, timers |-> 0, tries |-> 0, fails |-> 0,
      cs |-> << >>, wt |-> << >>]]

\* Nothing of the above has begun.
InitSys ==
  /\ vm = IdleVM
  /\ keyOnce = IdleKey
  /\ lk = IdleLocks
  /\ poll = IdlePoll
  /\ vmr = IdleVMR
  /\ watch = IdleWatch

\* statusMu is free, no request is being served, no history is kept.
InitReg ==
  /\ statusMu = ""
  /\ handler = IdleHandler
  /\ hist = NoHist(FALSE)

\* The coordinator as main leaves it before the scheduler loop: nothing is
\* live, nothing was built; on says whether the run keeps the history.
InitCoordHist(cap, on) ==
  /\ maxBuilds = cap
  /\ status = << >>
  /\ statusDone = << >>
  /\ bs = << >>
  /\ containers = << >>
  /\ waiter = << >>
  /\ streamer = << >>
  /\ sched = AtSelect
  /\ pollers = [b \in BuilderNames |-> [pc |-> "poll", rev |-> ""]]
  /\ now = 1
  /\ launchLimit = MaxLaunch
  /\ statusMu = ""
  /\ handler = IdleHandler
  /\ hist = NoHist(on)
  /\ InitSys

InitCoord(cap) == InitCoordHist(cap, FALSE)

\* What findWork may return: an error, no work (""), or a revision.
FindWorkResults ==
  {[rev |-> "", err |-> SomeErr]} \cup {[rev |-> r, err |-> NoErr] : r \in Revs \cup {""}}

\* findWorkLoop that gives up a send the scheduler has not taken and polls again.
PollerFindWork_GivesUp(b) ==
  /\ pollers[b].pc \in {"poll", "send"}
  /\ \E res \in FindWorkResults :
       pollers' = [pollers EXCEPT ![b] =
                     IF res.err = NoErr /\ res.rev /= ""
                     THEN [pc |-> "send", rev |-> res.rev]
                     ELSE [pc |-> "poll", rev |-> ""]]
  /\ UNCHANGED <<maxBuilds, status, statusDone, bs, containers, waiter, streamer,
                 sched, now, launchLimit>>
  /\ UNCHANGED imageVars
  /\ UNCHANGED outVars
  /\ UNCHANGED regVars
  /\ UNCHANGED sysVars

\* findWorkLoop, one iteration up to the send: on a revision the poller goes
\* on to "work <- builderRev{builderName, rev}", else it sleeps and polls again.
PollerFindWork(b) ==
  /\ pollers[b].pc = "poll"
  /\ \E res \in FindWorkResults :
       pollers' = [pollers EXCEPT ![b] =
                     IF res.err = NoErr /\ res.rev /= ""
                     THEN [pc |-> "send", rev |-> res.rev]
                     ELSE [pc |-> "poll", rev |-> ""]]
  /\ UNCHANGED <<maxBuilds, status, statusDone, bs, containers, waiter, streamer,
                 sched, now, launchLimit>>
  /\ UNCHANGED imageVars
  /\ UNCHANGED outVars
  /\ UNCHANGED regVars
  /\ UNCHANGED sysVars

\* "docker ps": a header line, then one line per running container. The
\* columns are CONTAINER ID, IMAGE, ...: a line starts with the container's
\* id, a hexadecimal string, here "c0ffee".
psLine(c) == <<"c0ffee", c.image>>

psLines ==
  LET running == SelectSeq(containers, LAMBDA c : c.state = "running")
  IN <<<<"CONTAINER ID", "IMAGE">>>> \o [i \in 1..Len(running) |-> psLine(running[i])]

\* The texts of the model that start with "gobuilders/".
GobuildersTexts == {"gobuilders/linux-x86-base"}

\* bytes.HasPrefix(p, []byte("gobuilders/")): a line starts with its first column.
hasPrefixGobuilders(line) == line[1] \in GobuildersTexts

\* numBuilds: the lines of "docker ps" that start with "gobuilders/"
numBuilds ==
  Cardinality({i \in 1..Len(psLines) : hasPrefixGobuilders(psLines[i])})

\* The number of candidates the scheduler has received on workc.
received ==
  LET RECURSIVE Sum(_)
      Sum(B) == IF B = {} THEN 0
                ELSE LET b == CHOOSE x \in B : TRUE IN hist.offers[b] + Sum(B \ {b})
  IN Sum(BuilderNames)

\* The work case with a candidate turned away kept by the scheduler.
SchedWork_Remember(b) ==
  LET work == builderRev(b, pollers[b].rev)
      mayBuild == mayBuildRev(work) /\ ~(numBuilds > maxBuilds)
  IN /\ sched.pc = "select"
     /\ pollers[b].pc = "send"
     /\ statusMu = ""
     /\ hist.on => received < MaxReceived
     /\ pollers' = [pollers EXCEPT ![b] = [pc |-> "poll", rev |-> ""]]
     /\ sched' = IF mayBuild
                 THEN [AtSelect EXCEPT !.pc = "startBuilding", !.work = work]
                 ELSE [sched EXCEPT !.work = work]
     /\ hist' = IF hist.on
                THEN [hist EXCEPT !.offers[b] = @ + 1,
                                  !.admitted = IF mayBuild THEN @ + 1 ELSE @,
                                  !.denied[b] = IF mayBuild \/ work \in DOMAIN status
                                                THEN "no" ELSE "denied"]
                ELSE hist
     /\ UNCHANGED <<maxBuilds, status, statusDone, bs, containers, waiter,
                    streamer, now, launchLimit>>
     /\ UNCHANGED imageVars
     /\ UNCHANGED outVars
     /\ UNCHANGED <<statusMu, handler>>
     /\ UNCHANGED sysVars

\* case work := <-workc, up to the call of startBuilding: the poller's send
\* completes, then mayBuildRev and the numBuilds gate decide.
SchedWork(b) ==
  LET work == builderRev(b, pollers[b].rev)
      mayBuild == mayBuildRev(work) /\ ~(numBuilds > maxBuilds)
  IN /\ sched.pc = "select"
     /\ pollers[b].pc = "send"
     /\ statusMu = ""
     /\ hist.on => received < MaxReceived
     /\ pollers' = [pollers EXCEPT ![b] = [pc |-> "poll", rev |-> ""]]
     /\ sched' = IF mayBuild
                 THEN [AtSelect EXCEPT !.pc = "startBuilding", !.work = work]
                 ELSE sched
     /\ hist' = IF hist.on
                THEN [hist EXCEPT !.offers[b] = @ + 1,
                                  !.admitted = IF mayBuild THEN @ + 1 ELSE @,
                                  !.denied[b] = IF mayBuild \/ work \in DOMAIN status
                                                THEN "no" ELSE "denied"]
                ELSE hist
     /\ UNCHANGED <<maxBuilds, status, statusDone, bs, containers, waiter,
                    streamer, now, launchLimit>>
     /\ UNCHANGED imageVars
     /\ UNCHANGED outVars
     /\ UNCHANGED <<statusMu, handler>>
     /\ UNCHANGED sysVars

\* What "docker run -d" may do: fail, or create a container (the runtime
\* creates launchLimit of them and no more).
DockerRunResults ==
  {SomeErr} \cup (IF Len(containers) < launchLimit THEN {NoErr} ELSE {})

\* The buildStatus startBuilding allocates.
newBuildStatus(work, container) ==
  [builderRev |-> work, container |-> container, done |-> 0, succeeded |-> FALSE]

\* startBuilding's two early returns: the error it returns, if any.
startErr(imgErr, dockerErr) == IF imgErr /= NoErr THEN imgErr ELSE dockerErr

\* startBuilding without the return on a failed "docker run".
launched_IgnoreRunError(imgErr, dockerErr) == imgErr = NoErr

\* startBuilding gets past both early returns.
launched(imgErr, dockerErr) == startErr(imgErr, dockerErr) = NoErr

\* startBuilding: condUpdateImage, then "docker run -d"; once past the two
\* early returns it allocates the buildStatus and starts the exit waiter and
\* the log streamer.
startBuilding(work, hd, gt, runErr, dockerErr) ==
  LET img == builders[work.name].image
      r == condUpdateImage(images[img].lastMod, hd, gt, runErr)
      id == Len(containers) + 1
  IN /\ lockFree(img)
     /\ images' = [images EXCEPT ![img].lastMod = r.lastMod]
     /\ sched' = [sched EXCEPT !.pc = "started",
                    !.st = IF launched(r.err, dockerErr) THEN Len(bs) + 1 ELSE Nil,
                    !.err = startErr(r.err, dockerErr),
                    !.imgErr = r.err, !.head = r.head, !.get = r.get, !.run = r.run]
     /\ IF launched(r.err, dockerErr)
        THEN /\ containers' = Append(containers,
                                [id |-> id, image |-> img, state |-> "running", code |-> 0])
             /\ bs' = Append(bs, newBuildStatus(work, id))
             /\ waiter' = Append(waiter, "wait")
             /\ streamer' = Append(streamer, "follow")
        ELSE UNCHANGED <<bs, containers, waiter, streamer>>

\* The scheduler's call startBuilding(builders[work.name], work.rev). Only the
\* answers the call gets to see are drawn: there is no http.Get after a Head
\* that ends the call, no "docker load" after a failed Get, no "docker run"
\* after a failed condUpdateImage.
SchedStartBuilding ==
  /\ sched.pc = "startBuilding"
  /\ LET img == builders[sched.work.name].image
         lastMod == images[img].lastMod
     IN \E hd \in Responses(remote[img]) :
        \E gt \in IF afterHead(lastMod, hd) = "get"
                  THEN Responses(remote[img]) ELSE {hd} :
        \E runErr \in IF afterHead(lastMod, hd) = "get" /\ afterGet(gt) = "load"
                      THEN RunResults ELSE {NoErr} :
        \E dockerErr \in IF condUpdateImage(lastMod, hd, gt, runErr).err = NoErr
                         THEN DockerRunResults ELSE {SomeErr} :
          startBuilding(sched.work, hd, gt, runErr, dockerErr)
  /\ UNCHANGED <<maxBuilds, status, statusDone, pollers, now, launchLimit>>
  /\ UNCHANGED <<remote, cu, loads>>
  /\ UNCHANGED outVars
  /\ UNCHANGED regVars
  /\ UNCHANGED sysVars

\* "if st, err := startBuilding(...); err == nil { setStatus(work, st) } else
\* { log }", then back to the select.
SchedStarted ==
  /\ sched.pc = "started"
  /\ sched.err = NoErr => statusMu = ""
  /\ IF sched.err = NoErr
     THEN setStatus(sched.work, sched.st)
     ELSE UNCHANGED status
  /\ sched' = AtSelect
  /\ UNCHANGED <<maxBuilds, statusDone, bs, containers, waiter, streamer,
                 pollers, now, launchLimit>>
  /\ UNCHANGED imageVars
  /\ UNCHANGED outVars
  /\ UNCHANGED regVars
  /\ UNCHANGED sysVars

\* SchedDone that starts a failed build again by itself.
SchedDone_Retry(id) ==
  /\ sched.pc = "select"
  /\ id \in 1..Len(waiter)
  /\ waiter[id] = "send"
  /\ statusMu = ""
  /\ markDone(bs[id].builderRev)
  /\ waiter' = [waiter EXCEPT ![id] = "rm"]
  /\ sched' = IF bs[id].succeeded THEN sched
              ELSE [AtSelect EXCEPT !.pc = "startBuilding", !.work = bs[id].builderRev]
  /\ UNCHANGED <<maxBuilds, bs, containers, streamer, pollers, now, launchLimit>>
  /\ UNCHANGED imageVars
  /\ UNCHANGED outVars
  /\ UNCHANGED regVars
  /\ UNCHANGED sysVars

\* case done := <-donec: the exit waiter's send completes; markDone(done).
SchedDone(id) ==
  /\ sched.pc = "select"
  /\ id \in 1..Len(waiter)
  /\ waiter[id] = "send"
  /\ statusMu = ""
  /\ markDone(bs[id].builderRev)
  /\ waiter' = [waiter EXCEPT ![id] = "rm"]
  /\ hist' = IF hist.on
             THEN [hist EXCEPT !.denied =
                     [b \in BuilderNames |-> IF @[b] = "denied" THEN "freed" ELSE @[b]]]
             ELSE hist
  /\ UNCHANGED <<maxBuilds, bs, containers, streamer, sched, pollers, now, launchLimit>>
  /\ UNCHANGED imageVars
  /\ UNCHANGED outVars
  /\ UNCHANGED <<statusMu, handler>>
  /\ UNCHANGED sysVars

\* case <-ticker.C: numCurrentBuilds() is read; nothing is done with it.
SchedTick ==
  /\ sched.pc = "select"
  /\ statusMu = ""
  /\ numCurrentBuilds >= 0
  /\ UNCHANGED coordVars
  /\ UNCHANGED imageVars
  /\ UNCHANGED outVars
  /\ UNCHANGED regVars
  /\ UNCHANGED sysVars

\* The container of a build exits with a code.
ContainerExit(id, code) ==
  /\ id \in 1..Len(containers)
  /\ containers[id].state = "running"
  /\ containers' = [containers EXCEPT ![id].state = "exited", ![id].code = code]
  /\ UNCHANGED <<maxBuilds, status, statusDone, bs, waiter, streamer, sched,
                 pollers, now, launchLimit>>
  /\ UNCHANGED imageVars
  /\ UNCHANGED outVars
  /\ UNCHANGED regVars
  /\ UNCHANGED sysVars

\* setDone: st.succeeded = succeeded; st.done = time.Now()
setDone(id, succeeded) ==
  /\ bs' = [bs EXCEPT ![id].succeeded = succeeded, ![id].done = now]
  /\ now' = now + 1

\* "docker wait" of a container: it blocks while the container runs, gives
\* the exit code once it has exited, and fails when the container is gone.
dockerWait(c) ==
  IF c.state = "exited"
  THEN [err |-> NoErr, exit |-> c.code]
  ELSE [err |-> SomeErr, exit |-> 0]

\* ok = (err == nil && exit == 0), err of "docker wait" and of Atoi
waitOk(w) == w.err = NoErr /\ w.exit = 0

\* The exit waiter without its send on donec.
WaiterWait_NoSend(id) ==
  /\ id \in 1..Len(waiter)
  /\ waiter[id] = "wait"
  /\ containers[bs[id].container].state \in {"exited", "removed"}
  /\ setDone(id, waitOk(dockerWait(containers[bs[id].container])))
  /\ waiter' = [waiter EXCEPT ![id] = "rm"]
  /\ UNCHANGED <<maxBuilds, status, statusDone, containers, streamer, sched, pollers,
                 launchLimit>>
  /\ UNCHANGED imageVars
  /\ UNCHANGED outVars
  /\ UNCHANGED regVars
  /\ UNCHANGED sysVars

\* The exit waiter: "docker wait" returns, then bs.setDone(ok).
WaiterWait(id) ==
  /\ id \in 1..Len(waiter)
  /\ waiter[id] = "wait"
  /\ containers[bs[id].container].state \in {"exited", "removed"}
  /\ setDone(id, waitOk(dockerWait(containers[bs[id].container])))
  /\ waiter' = [waiter EXCEPT ![id] = "send"]
  /\ UNCHANGED <<maxBuilds, status, statusDone, containers, streamer, sched, pollers,
                 launchLimit>>
  /\ UNCHANGED imageVars
  /\ UNCHANGED outVars
  /\ UNCHANGED regVars
  /\ UNCHANGED sysVars

\* cleanUpOldContainers: "docker rm -v" of a container that "docker ps -a
\* --filter=status=exited" lists.
ReaperRm(id) ==
  /\ id \in 1..Len(containers)
  /\ containers[id].state = "exited"
  /\ containers' = [containers EXCEPT ![id].state = "removed"]
  /\ UNCHANGED <<maxBuilds, status, statusDone, bs, waiter, streamer, sched,
                 pollers, now, launchLimit>>
  /\ UNCHANGED imageVars
  /\ UNCHANGED outVars
  /\ UNCHANGED regVars
  /\ UNCHANGED sysVars

\* The exit waiter after its send: "docker rm" of the container.
WaiterRm(id) ==
  /\ id \in 1..Len(waiter)
  /\ waiter[id] = "rm"
  /\ containers' = [containers EXCEPT ![bs[id].container].state = "removed"]
  /\ waiter' = [waiter EXCEPT ![id] = "end"]
  /\ UNCHANGED <<maxBuilds, status, statusDone, bs, streamer, sched, pollers, now, launchLimit>>
  /\ UNCHANGED imageVars
  /\ UNCHANGED outVars
  /\ UNCHANGED regVars
  /\ UNCHANGED sysVars

Init ==
  /\ InitImages
  /\ InitOutput(<<"k">>, [i \in 1..DigestLen |-> 170])
  /\ \E cap \in 0..MaxCap : InitCoord(cap)

Next ==
  \/ \E b \in BuilderNames : PollerFindWork(b)
  \/ \E b \in BuilderNames : SchedWork(b)
  \/ SchedStartBuilding
  \/ SchedStarted
  \/ \E id \in 1..Len(waiter) : SchedDone(id)
  \/ SchedTick
  \/ \E id \in 1..Len(containers), code \in ExitCodes : ContainerExit(id, code)
  \/ \E id \in 1..Len(waiter) : WaiterWait(id)
  \/ \E id \in 1..Len(waiter) : WaiterRm(id)


Spec == Init /\ [][Next]_vars

\* The coordinator with cleanUpOldContainers running beside it.
NextReaper ==
  \/ Next
  \/ \E id \in 1..Len(containers) : ReaperRm(id)

SpecReaper == Init /\ [][NextReaper]_vars

\* The coordinator with one builder more than its cap, keeping the history
\* of what the scheduler received.
InitSched ==
  /\ InitImages
  /\ InitOutput(<<"k">>, [i \in 1..DigestLen |-> 170])
  /\ InitCoordHist(Cardinality(BuilderNames) - 1, TRUE)

SpecSched == InitSched /\ [][Next]_vars

\* ------------------------------------------------------------------------
\* Specification of the coordinator started again while containers of its
\* previous run are still running
\* ------------------------------------------------------------------------

\* The coordinator just started, with k builder containers of a previous run
\* still running: the runtime has them, the registry does not.
AfterRestart(k, cap) ==
  /\ maxBuilds = cap
  /\ status = << >>
  /\ statusDone = << >>
  /\ bs = << >>
  /\ containers = [i \in 1..k |->
                     [id |-> i, image |-> "gobuilders/linux-x86-base",
                      state |-> "running", code |-> 0]]
  /\ waiter = << >>
  /\ streamer = << >>
  /\ sched = AtSelect
  /\ pollers = [b \in BuilderNames |-> [pc |-> "poll", rev |-> ""]]
  /\ now = 1
  /\ launchLimit = k + MaxLaunch
  /\ InitReg
  /\ InitSys
  /\ InitImages
  /\ InitOutput(<<"k">>, [i \in 1..DigestLen |-> 170])

InitRestart == \E k \in 0..MaxSurvivors, cap \in 0..MaxCap : AfterRestart(k, cap)

SpecRestart == InitRestart /\ [][Next]_vars

\* ------------------------------------------------------------------------
\* The status page
\* ------------------------------------------------------------------------

\* handleStatus: statusMu.Lock()
HandleStatusLock ==
  /\ handler.pc = "idle"
  /\ statusMu = ""
  /\ statusMu' = "handleStatus"
  /\ handler' = [IdleHandler EXCEPT !.pc = "copy"]
  /\ UNCHANGED hist
  /\ UNCHANGED sysVars
  /\ UNCHANGED coordVars
  /\ UNCHANGED imageVars
  /\ UNCHANGED outVars

\* handleStatus: the copy of status into active and of statusDone into
\* recent, then statusMu.Unlock()
HandleStatusCopy ==
  /\ handler.pc = "copy"
  /\ handler' = [handler EXCEPT !.pc = "render",
                                !.active = {status[k] : k \in DOMAIN status},
                                !.recent = statusDone]
  /\ statusMu' = ""
  /\ UNCHANGED hist
  /\ UNCHANGED sysVars
  /\ UNCHANGED coordVars
  /\ UNCHANGED imageVars
  /\ UNCHANGED outVars

\* handleStatus: the page is written, "%d of max %d builds running" from
\* len(status) read here, then a line per entry of active and of recent.
HandleStatusRender ==
  /\ handler.pc = "render"
  /\ handler' = [handler EXCEPT !.pc = "idle", !.running = Cardinality(DOMAIN status)]
  /\ UNCHANGED <<statusMu, hist>>
  /\ UNCHANGED sysVars
  /\ UNCHANGED coordVars
  /\ UNCHANGED imageVars
  /\ UNCHANGED outVars

\* The coordinator serving its status page while it builds.
NextStatusPage ==
  \/ Next
  \/ HandleStatusLock
  \/ HandleStatusCopy
  \/ HandleStatusRender

SpecStatusPage == Init /\ [][NextStatusPage]_vars

\* ------------------------------------------------------------------------
\* Specification of the coordinator with the recent ring nearly full
\* ------------------------------------------------------------------------

\* Numbers of builds already retired when the run starts.
RingFills == {maxStatusDone - 1, maxStatusDone}

\* The builder of the i-th retired build: the builders took turns.
ringBuilder(i) == IF i % 2 = 1 THEN "linux-386" ELSE "linux-amd64"

\* The coordinator after n builds were started and retired one after the
\* other, each succeeding: the live map is empty, the ring holds them in
\* order, their containers are removed and their exit waiters have ended,
\* and the builders' image is loaded.
AfterBuilds(n, cap) ==
  /\ maxBuilds = cap
  /\ status = << >>
  /\ statusDone = [i \in 1..n |-> i]
  /\ bs = [i \in 1..n |->
             [builderRev |-> builderRev(ringBuilder(i), CHOOSE r \in Revs : TRUE),
              container |-> i, done |-> i, succeeded |-> TRUE]]
  /\ containers = [i \in 1..n |->
                     [id |-> i, image |-> builders[ringBuilder(i)].image,
                      state |-> "removed", code |-> 0]]
  /\ waiter = [i \in 1..n |-> "end"]
  /\ streamer = [i \in 1..n |-> "follow"]
  /\ sched = AtSelect
  /\ pollers = [b \in BuilderNames |-> [pc |-> "poll", rev |-> ""]]
  /\ now = n + 1
  /\ launchLimit = n + MaxLaunch
  /\ InitReg
  /\ InitSys
  /\ images = [i \in Images |->
                 [lastMod |-> IF \E b \in BuilderNames : builders[b].image = i
                              THEN 1 ELSE 0,
                  mu |-> ""]]
  /\ remote = [i \in Images |-> 1]
  /\ cu = [c \in Callers |-> IdleCall]
  /\ loads = [k \in Images \X (0..MaxTag + 1) |-> 0]
  /\ InitOutput(<<"k">>, [i \in 1..DigestLen |-> 170])

InitRing == \E n \in RingFills, cap \in 1..MaxCap : AfterBuilds(n, cap)

SpecRing == InitRing /\ [][Next]_vars

\* ------------------------------------------------------------------------
\* Specification of markDone on any key, with the recent ring nearly full
\* ------------------------------------------------------------------------

\* Which builders have a build running when the run starts.
LiveSets == {<<"linux-386">>, <<"linux-amd64">>, <<"linux-386", "linux-amd64">>}

\* The coordinator after n builds were retired as in AfterBuilds, with a build
\* running for each builder of the sequence live, and a runtime that creates
\* no further container.
AfterBuildsLive(n, live) ==
  LET m == Len(live)
      retired(i) == i <= n
      name(i) == IF retired(i) THEN ringBuilder(i) ELSE live[i - n]
  IN
  /\ maxBuilds = Cardinality(BuilderNames)
  /\ status = [k \in {builderRev(live[j], CHOOSE r \in Revs : TRUE) : j \in 1..m} |->
                 n + (CHOOSE j \in 1..m : live[j] = k.name)]
  /\ statusDone = [i \in 1..n |-> i]
  /\ bs = [i \in 1..(n + m) |->
             [builderRev |-> builderRev(name(i), CHOOSE r \in Revs : TRUE),
              container |-> i,
              done |-> IF retired(i) THEN i ELSE 0,
              succeeded |-> retired(i)]]
  /\ containers = [i \in 1..(n + m) |->
                     [id |-> i, image |-> builders[name(i)].image,
                      state |-> IF retired(i) THEN "removed" ELSE "running",
                      code |-> 0]]
  /\ waiter = [i \in 1..(n + m) |-> IF retired(i) THEN "end" ELSE "wait"]
  /\ streamer = [i \in 1..(n + m) |-> "follow"]
  /\ sched = AtSelect
  /\ pollers = [b \in BuilderNames |-> [pc |-> "poll", rev |-> ""]]
  /\ now = n + 1
  /\ launchLimit = n + m
  /\ InitReg
  /\ InitSys
  /\ images = [i \in Images |->
                 [lastMod |-> IF \E b \in BuilderNames : builders[b].image = i
                              THEN 1 ELSE 0,
                  mu |-> ""]]
  /\ remote = [i \in Images |-> 1]
  /\ cu = [c \in Callers |-> IdleCall]
  /\ loads = [k \in Images \X (0..MaxTag + 1) |-> 0]
  /\ InitOutput(<<"k">>, [i \in 1..DigestLen |-> 170])

InitMarkDone == \E n \in RingFills, live \in LiveSets : AfterBuildsLive(n, live)

\* case done := <-donec, for a completion of any key, live or not:
\* markDone(done). The key received is kept in sched.work.
SchedDoneAny(work) ==
  /\ sched.pc = "select"
  /\ statusMu = ""
  /\ markDone(work)
  /\ sched' = [AtSelect EXCEPT !.pc = "markDone", !.work = work]
  /\ UNCHANGED <<maxBuilds, bs, containers, waiter, streamer, pollers, now, launchLimit>>
  /\ UNCHANGED imageVars
  /\ UNCHANGED outVars
  /\ UNCHANGED regVars
  /\ UNCHANGED sysVars

\* markDone has returned; back to the select.
SchedDoneReturn ==
  /\ sched.pc = "markDone"
  /\ sched' = AtSelect
  /\ UNCHANGED <<maxBuilds, status, statusDone, bs, containers, waiter, streamer,
                 pollers, now, launchLimit>>
  /\ UNCHANGED imageVars
  /\ UNCHANGED outVars
  /\ UNCHANGED regVars
  /\ UNCHANGED sysVars

NextMarkDone ==
  \/ Next
  \/ \E work \in BuilderRevs : SchedDoneAny(work)
  \/ SchedDoneReturn

SpecMarkDone == InitMarkDone /\ [][NextMarkDone]_vars

\* ------------------------------------------------------------------------
\* Specification of the image cache under concurrent callers
\* ------------------------------------------------------------------------

InitImage ==
  /\ InitImages
  /\ InitCoord(MaxCap)
  /\ InitOutput(<<"k">>, [i \in 1..DigestLen |-> 170])

NextImage ==
  \/ \E c \in Callers, img \in Images : CuCall(c, img)
  \/ \E c \in Callers : CuLock(c)
  \/ \E c \in Callers : CuHead(c)
  \/ \E c \in Callers : CuGet(c)
  \/ \E c \in Callers, runErr \in RunResults : CuLoad(c, runErr)
  \/ \E c \in Callers : CuReturn(c)
  \/ \E img \in Images : RemoteChange(img)

SpecImage == InitImage /\ [][NextImage]_vars

\* ------------------------------------------------------------------------
\* Specifications of one build's output: large writes, and small ones read
\* back through /logs
\* ------------------------------------------------------------------------

InitWrite ==
  /\ InitImages
  /\ InitCoord(MaxCap)
  /\ InitOutput(<<"k">>, [i \in 1..DigestLen |-> 170])

NextWrite == \E p \in BigWrites : StreamerWrite(p)

SpecWrite == InitWrite /\ [][NextWrite]_vars

InitLogs ==
  /\ InitImages
  /\ InitCoord(MaxCap)
  /\ \E master \in MasterKeys, sum \in Digests : InitOutput(master, sum)

NextLogs ==
  \/ \E p \in SmallWrites : StreamerWrite(p)
  \/ HandleLogs

SpecLogs == InitLogs /\ [][NextLogs]_vars

\* ------------------------------------------------------------------------
\* The VM reaper: cleanZoneVMs
\* ------------------------------------------------------------------------

Digits == <<"0", "1", "2", "3", "4", "5", "6", "7", "8", "9">>

\* The value of a decimal digit, -1 for any other character.
digitVal(ch) ==
  IF \E d \in 1..10 : Digits[d] = ch THEN (CHOOSE d \in 1..10 : Digits[d] = ch) - 1 ELSE -1

\* s without its leading zeros.
RECURSIVE stripZeros(_)
stripZeros(s) == IF s /= << >> /\ Head(s) = "0" THEN stripZeros(Tail(s)) ELSE s

\* The number a string of digits writes.
RECURSIVE digitsVal(_)
digitsVal(s) ==
  IF s = << >> THEN 0 ELSE digitsVal(SubSeq(s, 1, Len(s) - 1)) * 10 + digitVal(s[Len(s)])

\* strconv.ParseInt(s, 10, 64): an optional sign, then one decimal digit or
\* more and nothing else, else a syntax error; a range error beyond 64 bits
\* (here: 20 digits or more; the values drawn have at most 2 digits or 20).
ParseInt(s) ==
  LET signed == s /= << >> /\ Head(s) \in {"+", "-"}
      body == IF signed THEN Tail(s) ELSE s
  IN IF body = << >> \/ \E i \in 1..Len(body) : digitVal(body[i]) < 0
     THEN [err |-> "syntax", n |-> 0]
     ELSE IF Len(stripZeros(body)) >= 20
     THEN [err |-> "range", n |-> 0]
     ELSE [err |-> NoErr,
           n |-> IF signed /\ Head(s) = "-" THEN 0 - digitsVal(body) ELSE digitsVal(body)]

\* The test without "err == nil": a value that does not parse counts as 0.
expired_IgnoreErr(value, unixNow) == unixNow > ParseInt(value).n

\* "err == nil && time.Now().Unix() > unixDeadline"
expired(value, unixNow) == ParseInt(value).err = NoErr /\ unixNow > ParseInt(value).n

\* The delete-at values seen: "", "5", "10", "15", "-5", "+5", "05", "1x",
\* " 5", "5.0" and a number of 20 digits.
DeleteAtValues ==
  { << >>, <<"5">>, <<"1", "0">>, <<"1", "5">>, <<"-", "5">>, <<"+", "5">>,
    <<"0", "5">>, <<"1", "x">>, <<" ", "5">>, <<"5", ".", "0">>,
    [i \in 1..20 |-> "9"] }

\* The items an instance's metadata may hold: none, a delete-at item, an item
\* of another key, or an item of another key and then a delete-at item.
ItemLists ==
  {<< >>, <<[key |-> "owner", value |-> <<"5">>]>>}
    \cup {<<[key |-> "delete-at", value |-> v]>> : v \in DeleteAtValues}
    \cup {<<[key |-> "owner", value |-> <<"5">>], [key |-> "delete-at", value |-> v]>> :
            v \in {<<"5">>, <<"1", "5">>, <<"1", "x">>}}

\* An instance: inst.Metadata is nil or holds items.
Instances ==
  {[metadata |-> FALSE, items |-> << >>]}
    \cup {[metadata |-> TRUE, items |-> its] : its \in ItemLists}

\* What svc.Instances.List may give: up to MaxVMs instances, named 1, 2, ...
InstanceLists ==
  UNION {[1..n -> Instances] : n \in 0..MaxVMs}

\* time.Now().Unix() during the pass.
UnixTimes == {9, 10, 11}

\* cleanZoneVMs up to the loop: metadata.ProjectID() and Instances.List, either
\* of which may fail and end the call with an error.
CleanZoneList ==
  /\ vm.pc = "idle"
  /\ \E list \in InstanceLists, unixNow \in UnixTimes, ok \in BOOLEAN :
       vm' = IF ok
             THEN [IdleVM EXCEPT !.pc = "loop", !.list = list, !.i = 1, !.now = unixNow]
             ELSE [IdleVM EXCEPT !.pc = "error", !.list = list, !.now = unixNow]
  /\ UNCHANGED <<keyOnce, lk, poll, vmr, watch>>
  /\ UNCHANGED coordVars
  /\ UNCHANGED imageVars
  /\ UNCHANGED outVars
  /\ UNCHANGED regVars

\* The deletes and the log lines the items of one instance give, in order.
RECURSIVE itemsDeletes(_, _, _)
itemsDeletes(items, name, unixNow) ==
  IF items = << >> THEN << >>
  ELSE (IF Head(items).key = "delete-at" /\ expired(Head(items).value, unixNow)
        THEN <<name>> ELSE << >>) \o itemsDeletes(Tail(items), name, unixNow)

RECURSIVE itemsLogged(_)
itemsLogged(items) ==
  IF items = << >> THEN 0
  ELSE (IF Head(items).key = "delete-at" /\ ParseInt(Head(items).value).err /= NoErr
        THEN 1 ELSE 0) + itemsLogged(Tail(items))

\* One turn of "for _, inst := range list.Items": an instance without
\* metadata is passed over; else every item is looked at, and deleteVM is
\* called for a delete-at item that has expired.
CleanZoneInstance ==
  /\ vm.pc = "loop"
  /\ vm.i <= Len(vm.list)
  /\ LET inst == vm.list[vm.i]
     IN vm' = [vm EXCEPT
                 !.i = @ + 1,
                 !.deleted = IF ~inst.metadata THEN @
                             ELSE @ \o itemsDeletes(inst.items, vm.i, vm.now),
                 !.logged = IF ~inst.metadata THEN @ ELSE @ + itemsLogged(inst.items)]
  /\ UNCHANGED <<keyOnce, lk, poll, vmr, watch>>
  /\ UNCHANGED coordVars
  /\ UNCHANGED imageVars
  /\ UNCHANGED outVars
  /\ UNCHANGED regVars

\* The loop is over: return nil.
CleanZoneReturn ==
  /\ vm.pc = "loop"
  /\ vm.i > Len(vm.list)
  /\ vm' = [vm EXCEPT !.pc = "done"]
  /\ UNCHANGED <<keyOnce, lk, poll, vmr, watch>>
  /\ UNCHANGED coordVars
  /\ UNCHANGED imageVars
  /\ UNCHANGED outVars
  /\ UNCHANGED regVars

NextVMs ==
  \/ CleanZoneList
  \/ CleanZoneInstance
  \/ CleanZoneReturn

InitVMs ==
  /\ InitImages
  /\ InitCoord(MaxCap)
  /\ InitOutput(<< >>, [i \in 1..DigestLen |-> 170])

SpecVMs == InitVMs /\ [][NextVMs]_vars

\* ------------------------------------------------------------------------
\* The master key: masterKey, keyOnce, loadKey
\* ------------------------------------------------------------------------

WhiteSpace == {" ", "\n", "\t", "\r"}

\* bytes.TrimSpace
RECURSIVE TrimSpace(_)
TrimSpace(b) ==
  IF b = << >> THEN b
  ELSE IF Head(b) \in WhiteSpace THEN TrimSpace(Tail(b))
  ELSE IF b[Len(b)] \in WhiteSpace THEN TrimSpace(SubSeq(b, 1, Len(b) - 1))
  ELSE b

\* What the key file or the metadata attribute may hold when it is read.
KeyFiles == {<< >>, <<"k">>, <<" ", "k", "\n">>, <<"j", "\n">>}

\* What loadKey may meet: a log.Fatal (no file, no answer, a status other
\* than 200, a failed read) or the bytes read.
LoadResults ==
  {[fatal |-> TRUE, raw |-> << >>]} \cup {[fatal |-> FALSE, raw |-> r] : r \in KeyFiles}

KeyStep(c, from, to) ==
  /\ ~keyOnce.exited
  /\ keyOnce.calls[c].pc = from
  /\ UNCHANGED <<vm, lk, poll, vmr, watch>>
  /\ UNCHANGED coordVars
  /\ UNCHANGED imageVars
  /\ UNCHANGED regVars
  /\ UNCHANGED <<output, offered, wret, nwrites, hmacSum, resp>>

\* A goroutine calls masterKey(): keyOnce.Do(loadKey) begins.
KeyCall(c) ==
  /\ KeyStep(c, "idle", "do")
  /\ keyOnce' = [keyOnce EXCEPT !.calls[c].pc = "do"]
  /\ UNCHANGED masterKeyCache

\* Once.Do: "if atomic.LoadUint32(&o.done) == 1 { return }".
KeyDoFast(c) ==
  /\ KeyStep(c, "do", "read")
  /\ keyOnce' = [keyOnce EXCEPT
                   !.calls[c].pc = IF keyOnce.done THEN "read" ELSE "lock",
                   !.calls[c].path = IF keyOnce.done THEN "fast" ELSE "slow"]
  /\ UNCHANGED masterKeyCache

\* Once.Do without "if o.done == 0" under the mutex.
needsLoad_NoCheck(once) == TRUE

\* Once.Do: "if o.done == 0" under the mutex.
needsLoad(once) == ~once.done

\* Once.Do: "o.m.Lock()", then the test of o.done.
KeyDoLock(c) ==
  /\ KeyStep(c, "lock", "load")
  /\ keyOnce.m = 0
  /\ keyOnce' = [keyOnce EXCEPT
                   !.m = c,
                   !.calls[c].pc = IF needsLoad(keyOnce) THEN "load" ELSE "unlock"]
  /\ UNCHANGED masterKeyCache

\* loadKey is entered.
KeyLoadBegin(c) ==
  /\ KeyStep(c, "load", "loading")
  /\ keyOnce' = [keyOnce EXCEPT
                   !.runs = @ + 1, !.calls[c].pc = "loading", !.calls[c].path = "loader"]
  /\ UNCHANGED masterKeyCache

\* loadKey reads the file or the attribute: a failure is a log.Fatal, which
\* ends the process; else masterKeyCache is set and loadKey returns.
KeyLoadEnd(c, res) ==
  /\ KeyStep(c, "loading", "store")
  /\ IF res.fatal
     THEN /\ keyOnce' = [keyOnce EXCEPT !.exited = TRUE]
          /\ UNCHANGED masterKeyCache
     ELSE /\ keyOnce' = [keyOnce EXCEPT !.loaded = TRUE, !.calls[c].pc = "store"]
          /\ masterKeyCache' = TrimSpace(res.raw)

\* Once.Do: "defer atomic.StoreUint32(&o.done, 1)".
KeyDoStore(c) ==
  /\ KeyStep(c, "store", "unlock")
  /\ keyOnce' = [keyOnce EXCEPT !.done = TRUE, !.calls[c].pc = "unlock"]
  /\ UNCHANGED masterKeyCache

\* Once.Do: "defer o.m.Unlock()".
KeyDoUnlock(c) ==
  /\ KeyStep(c, "unlock", "read")
  /\ keyOnce' = [keyOnce EXCEPT !.m = 0, !.calls[c].pc = "read"]
  /\ UNCHANGED masterKeyCache

\* "return masterKeyCache"
KeyReturn(c) ==
  /\ KeyStep(c, "read", "returned")
  /\ keyOnce' = [keyOnce EXCEPT !.calls[c].pc = "returned", !.calls[c].ret = masterKeyCache]
  /\ UNCHANGED masterKeyCache

NextKey ==
  \/ \E c \in KeyCallers : KeyCall(c)
  \/ \E c \in KeyCallers : KeyDoFast(c)
  \/ \E c \in KeyCallers : KeyDoLock(c)
  \/ \E c \in KeyCallers : KeyLoadBegin(c)
  \/ \E c \in KeyCallers, res \in LoadResults : KeyLoadEnd(c, res)
  \/ \E c \in KeyCallers : KeyDoStore(c)
  \/ \E c \in KeyCallers : KeyDoUnlock(c)
  \/ \E c \in KeyCallers : KeyReturn(c)

InitKey == InitVMs

SpecKey == InitKey /\ [][NextKey]_vars

\* ------------------------------------------------------------------------
\* The mutexes: what each goroutine does with statusMu, st.mu and ii.mu
\* ------------------------------------------------------------------------

\* The steps of a goroutine that matter here, in the order of the code: Lock
\* and Unlock of a mutex, an external call or channel operation or response
\* write (io), a read or write of the data a mutex guards (mem). A deferred
\* Unlock stands where the function returns.
Lock(m) == [op |-> "lock", m |-> m]
Unlock(m) == [op |-> "unlock", m |-> m]
IO(what) == [op |-> "io", m |-> what]
Mem(what) == [op |-> "mem", m |-> what]

\* numCurrentBuilds, mayBuildRev, setStatus, markDone, getStatus: Lock, the
\* work on status and statusDone, the deferred Unlock.
underStatusMu(what) == <<Lock("statusMu"), Mem(what), Unlock("statusMu")>>

\* condUpdateImage: ii.mu is held to the return, through HEAD, GET and
\* "docker load"; loaded says whether HEAD gave a new Last-Modified.
condUpdateImageOps(loaded) ==
  <<Lock("ii.mu"), IO("http head")>>
    \o (IF loaded THEN <<IO("http get"), IO("docker load"), Mem("ii.lastMod")>> ELSE << >>)
    \o <<Unlock("ii.mu")>>

\* The scheduler, case work := <-workc, the candidate admitted and launched.
schedWorkOps(loaded) ==
  <<IO("recv workc")>> \o underStatusMu("mayBuildRev") \o <<IO("docker ps")>>
    \o condUpdateImageOps(loaded) \o <<IO("docker run")>> \o underStatusMu("setStatus")

\* The scheduler, case work := <-workc, the candidate turned away by mayBuildRev.
schedDenyOps == <<IO("recv workc")>> \o underStatusMu("mayBuildRev")

\* The scheduler, case done := <-donec.
schedDoneOps == <<IO("recv donec")>> \o underStatusMu("markDone")

\* The scheduler, case <-ticker.C.
schedTickOps == <<IO("recv ticker")>> \o underStatusMu("numCurrentBuilds")

\* The exit waiter of startBuilding: "docker wait", setDone, the send on
\* donec, "docker rm".
waiterOps(mu) ==
  <<IO("docker wait"), Lock(mu), Mem("setDone"), Unlock(mu), IO("send donec"), IO("docker rm")>>

\* The log streamer: "docker logs -f" hands a piece to buildStatus.Write.
streamerOps(mu) == <<IO("docker logs"), Lock(mu), Mem("Write"), Unlock(mu)>>

\* htmlStatusLine, then the write of its line.
statusLineOps(mu) == <<Lock(mu), Mem("htmlStatusLine"), Unlock(mu), IO("http write")>>

\* handleStatus that renders before it unlocks.
handleStatusOps_RenderLocked ==
  <<Lock("statusMu"), Mem("copy active"), Mem("copy recent"), IO("http write")>>
    \o statusLineOps("st.mu") \o <<IO("df"), IO("http write"), Unlock("statusMu")>>

\* handleStatus: the copies under statusMu, Unlock, then the page with the
\* line of the build, and diskFree.
handleStatusOps ==
  <<Lock("statusMu"), Mem("copy active"), Mem("copy recent"), Unlock("statusMu"),
    IO("http write")>>
    \o statusLineOps("st.mu") \o <<IO("df"), IO("http write")>>

\* handleLogs with the build looked up and its logs taken in one hold of statusMu.
handleLogsOps_LogsLocked(mu) ==
  <<Lock("statusMu"), Mem("getStatus"), Lock(mu), Mem("output.String"), Unlock(mu),
    Unlock("statusMu"), IO("http write")>>

\* handleLogs: getStatus, st.logs() (st.mu only around output.String()), the
\* write of the body.
handleLogsOps(mu) ==
  underStatusMu("getStatus") \o <<Lock(mu), Mem("output.String"), Unlock(mu), IO("http write")>>

\* handleLogs for a build that is not known: getStatus, http.NotFound.
handleLogsNotFoundOps == underStatusMu("getStatus") \o <<IO("http write")>>

\* What a goroutine may do next when it starts over.
Programs(t) ==
  CASE t = "sched" -> {schedWorkOps(TRUE), schedWorkOps(FALSE), schedDenyOps, schedDoneOps,
                       schedTickOps}
    [] t = "waiter" -> {waiterOps("st.mu")}
    [] t = "streamer" -> {streamerOps("st.mu")}
    [] t = "status" -> {handleStatusOps}
    [] t = "logs" -> {handleLogsOps("st.mu"), handleLogsNotFoundOps}

\* The step goroutine t is at, if it is in a sequence.
InProgram(t) == lk.pc[t] \in 1..Len(lk.prog[t])
OpAt(t) == lk.prog[t][lk.pc[t]]

LockFrame ==
  /\ UNCHANGED <<vm, keyOnce, poll, vmr, watch>>
  /\ UNCHANGED coordVars
  /\ UNCHANGED imageVars
  /\ UNCHANGED outVars
  /\ UNCHANGED regVars

\* lk after goroutine t has done the step it is at: it is at its next step,
\* or, the sequence over, back where it starts one (the select, the next
\* request, the next build).
stepped(l, t) ==
  IF l.pc[t] = Len(l.prog[t])
  THEN [l EXCEPT !.pc[t] = 0, !.prog[t] = << >>]
  ELSE [l EXCEPT !.pc[t] = @ + 1]

\* A goroutine starts a sequence: the select fires, a request arrives, ...
LockBegin(t, p) ==
  /\ lk.pc[t] = 0
  /\ lk' = [lk EXCEPT !.pc[t] = 1, !.prog[t] = p]
  /\ LockFrame

\* m.Lock(): it waits while the mutex is held, by whoever it is.
LockAcquire(t) ==
  /\ InProgram(t)
  /\ OpAt(t).op = "lock"
  /\ lk.holder[OpAt(t).m] = ""
  /\ lk' = stepped([lk EXCEPT !.holder[OpAt(t).m] = t], t)
  /\ LockFrame

\* m.Unlock()
LockRelease(t) ==
  /\ InProgram(t)
  /\ OpAt(t).op = "unlock"
  /\ lk' = stepped([lk EXCEPT !.holder[OpAt(t).m] = ""], t)
  /\ LockFrame

\* An external call, a channel operation or a response write is done, or a
\* piece of work on guarded data.
LockOther(t) ==
  /\ InProgram(t)
  /\ OpAt(t).op \in {"io", "mem"}
  /\ lk' = stepped(lk, t)
  /\ LockFrame

NextLocks ==
  \/ \E t \in LockTasks : \E p \in Programs(t) : LockBegin(t, p)
  \/ \E t \in LockTasks : LockAcquire(t)
  \/ \E t \in LockTasks : LockRelease(t)
  \/ \E t \in LockTasks : LockOther(t)

InitLocks == InitVMs

SpecLocks == InitLocks /\ [][NextLocks]_vars

\* ------------------------------------------------------------------------
\* The pollers: findWorkLoop, findWork
\* ------------------------------------------------------------------------

\* What the dashboard's /todo may answer: the Get fails, or gives a status and
\* a body that decodes or not into a Kind and a Hash (a decode that fails may
\* have filled fields before it failed).
DashResponses ==
  [getErr : {NoErr, SomeErr}, status : {200, 404, 500}, decodeErr : {NoErr, SomeErr},
   kind : {"build-go-commit", "benchmark-go-commit", ""}, hash : Revs \cup {""}]

\* findWork without the test of Kind.
findWork_AnyKind(res) ==
  IF res.getErr /= NoErr THEN [rev |-> "", err |-> SomeErr]
  ELSE IF res.status /= 200 THEN [rev |-> "", err |-> SomeErr]
  ELSE [rev |-> res.hash, err |-> res.decodeErr]

\* findWork: the error of the Get, an error for a status other than 200,
\* else the error of the decode with the Hash when Kind is "build-go-commit".
findWork(res) ==
  IF res.getErr /= NoErr THEN [rev |-> "", err |-> SomeErr]
  ELSE IF res.status /= 200 THEN [rev |-> "", err |-> SomeErr]
  ELSE [rev |-> IF res.kind = "build-go-commit" THEN res.hash ELSE "",
        err |-> res.decodeErr]

PollFrame ==
  /\ UNCHANGED <<vm, keyOnce, lk, vmr, watch>>
  /\ UNCHANGED coordVars
  /\ UNCHANGED imageVars
  /\ UNCHANGED outVars
  /\ UNCHANGED regVars

\* "rev, err := findWork(builderName, dashURL)"
PollFindWork(b, res) ==
  /\ poll[b].pc = "poll"
  /\ poll' = [poll EXCEPT ![b] =
                [pc |-> "found", res |-> res, rev |-> findWork(res).rev,
                 err |-> findWork(res).err, sent |-> builderRev("", "")]]
  /\ PollFrame

\* "if err != nil { log } else if rev != "" { work <- ... }": the poller goes
\* to its send or straight to its sleep.
PollDecide(b) ==
  /\ poll[b].pc = "found"
  /\ poll' = [poll EXCEPT ![b].pc =
                IF poll[b].err = NoErr /\ poll[b].rev /= "" THEN "send" ELSE "sleep"]
  /\ PollFrame

\* "work <- builderRev{builderName, rev}": the scheduler receives it.
PollSend(b) ==
  /\ poll[b].pc = "send"
  /\ poll' = [poll EXCEPT ![b].pc = "sleep", ![b].sent = builderRev(b, poll[b].rev)]
  /\ PollFrame

\* time.Sleep is over: the next cycle.
PollWake(b) ==
  /\ poll[b].pc = "sleep"
  /\ poll' = [poll EXCEPT ![b] = IdlePoll[b]]
  /\ PollFrame

NextPoller ==
  \/ \E b \in BuilderNames, res \in DashResponses : PollFindWork(b, res)
  \/ \E b \in BuilderNames : PollDecide(b)
  \/ \E b \in BuilderNames : PollSend(b)
  \/ \E b \in BuilderNames : PollWake(b)

InitPoller == InitVMs

SpecPoller == InitPoller /\ [][NextPoller]_vars

\* ------------------------------------------------------------------------
\* The VM reaper's loop: cleanUpOldVMs, hasComputeScope, deleteVM
\* ------------------------------------------------------------------------

\* OAuth2 scopes a default service account may carry: compute.ComputeScope,
\* compute.ComputeReadonlyScope, compute.DevstorageFull_controlScope.
ComputeScope == "https://www.googleapis.com/auth/compute"
ComputeReadonlyScope == "https://www.googleapis.com/auth/compute.readonly"
DevstorageFull_controlScope == "https://www.googleapis.com/auth/devstorage.full_control"
Scopes == {ComputeScope, ComputeReadonlyScope, DevstorageFull_controlScope}

\* hasComputeScope: on GCE, the scopes of "default" were read, and one of
\* them is compute.DevstorageFull_controlScope.
hasComputeScope(onGCE, scopesErr, scopes) ==
  /\ onGCE
  /\ scopesErr = NoErr
  /\ \E v \in scopes : v = DevstorageFull_controlScope

VMRFrame ==
  /\ UNCHANGED <<vm, keyOnce, lk, poll, watch>>
  /\ UNCHANGED coordVars
  /\ UNCHANGED imageVars
  /\ UNCHANGED outVars
  /\ UNCHANGED regVars

\* cleanUpOldVMs begins: without the scope it logs and returns, else it makes
\* the compute service and enters its loop at the first zone.
VMRStart ==
  /\ vmr.pc = "start"
  /\ \E onGCE \in BOOLEAN, scopesErr \in {NoErr, SomeErr}, scopes \in SUBSET Scopes :
       vmr' = [vmr EXCEPT
                 !.onGCE = onGCE, !.scopesErr = scopesErr,
                 !.scopes = IF onGCE /\ scopesErr = NoErr THEN scopes ELSE {},
                 !.pc = IF hasComputeScope(onGCE, scopesErr, scopes) THEN "zone" ELSE "disabled",
                 !.z = IF hasComputeScope(onGCE, scopesErr, scopes) THEN 1 ELSE 0]
  /\ VMRFrame

\* The loop over the zones that stops at a zone's error.
nextZone_StopOnError(z, err) == IF err /= NoErr THEN Len(Zones) + 1 ELSE z + 1

\* "for _, zone := range ...": after cleanZoneVMs returned err, which is only
\* logged, the next zone.
nextZone(z, err) == z + 1

\* vmr with zone z's pass over, its result res and cleanZoneVMs' error err:
\* on to the next zone, or to the sleep after the last.
zoneOver(v, res, err) ==
  LET n == nextZone(v.z, err)
  IN [v EXCEPT !.results[v.z] = res, !.insts = << >>, !.i = 0,
               !.pc = IF n > Len(Zones) THEN "sleep" ELSE "zone",
               !.z = IF n > Len(Zones) THEN 0 ELSE n]

\* cleanZoneVMs up to its loop: metadata.ProjectID() fails (no call to the
\* API is made), Instances.List fails, or it gives the instances, each one
\* expired or not.
VMRZoneList ==
  /\ vmr.pc = "zone"
  /\ \/ vmr' = zoneOver(vmr, "projErr", SomeErr)
     \/ vmr' = zoneOver([vmr EXCEPT !.issued = TRUE], "listErr", SomeErr)
     \/ \E insts \in UNION {[1..n -> BOOLEAN] : n \in 0..MaxVMs} :
          vmr' = [vmr EXCEPT !.issued = TRUE, !.pc = "insts", !.insts = insts, !.i = 1,
                             !.listed[vmr.z] = Len(insts)]
  /\ VMRFrame

\* What deleteVM may come to: the delete request sent, ProjectID failed,
\* Instances.Delete failed; each is logged and deleteVM returns.
DeleteResults == {"sent", "projErr", "deleteErr"}

\* One instance of the zone: deleteVM if it has expired, then the next one.
VMRInstance ==
  /\ vmr.pc = "insts"
  /\ vmr.i <= Len(vmr.insts)
  /\ \E del \in IF vmr.insts[vmr.i] THEN DeleteResults ELSE {"sent"} :
       vmr' = [vmr EXCEPT
                 !.i = @ + 1,
                 !.visited[vmr.z] = @ + 1,
                 !.issued = @ \/ (vmr.insts[vmr.i] /\ del /= "projErr"),
                 !.failed = @ \/ del /= "sent"]
  /\ VMRFrame

\* The instances are done: cleanZoneVMs returns nil.
VMRZoneReturn ==
  /\ vmr.pc = "insts"
  /\ vmr.i > Len(vmr.insts)
  /\ vmr' = zoneOver(vmr, "done", NoErr)
  /\ VMRFrame

\* time.Sleep(time.Minute) is over: the next cycle, from the first zone.
VMRSleep ==
  /\ vmr.pc = "sleep"
  /\ vmr' = [vmr EXCEPT !.pc = "zone", !.z = 1,
                        !.results = IdleVMR.results, !.visited = IdleVMR.visited,
                        !.listed = IdleVMR.listed, !.failed = FALSE]
  /\ VMRFrame

NextVMReaper ==
  \/ VMRStart
  \/ VMRZoneList
  \/ VMRInstance
  \/ VMRZoneReturn
  \/ VMRSleep

InitVMReaper == InitVMs

SpecVMReaper == InitVMReaper /\ [][NextVMReaper]_vars

\* The same with every call of the reaper returning in the end.
SpecVMReaperFair == SpecVMReaper /\ WF_vars(NextVMReaper)

\* ------------------------------------------------------------------------
\* The coordinator with containers that exit and a select fair to donec
\* ------------------------------------------------------------------------

\* Every container exits in the end and its "docker wait" returns.
WaitReturns ==
  \A id \in 1..MaxLaunch :
    /\ WF_vars(\E code \in ExitCodes : ContainerExit(id, code))
    /\ WF_vars(WaiterWait(id))

\* The select does not pass over a sender on donec for ever.
SelectFairToDone == \A id \in 1..MaxLaunch : SF_vars(SchedDone(id))

\* The scheduler comes back to its select: startBuilding, with
\* condUpdateImage and "docker run" in it, returns, then setStatus.
SchedCallsReturn == WF_vars(SchedStartBuilding) /\ WF_vars(SchedStarted)

SpecRetire == Spec /\ WaitReturns /\ SelectFairToDone /\ SchedCallsReturn

\* ------------------------------------------------------------------------
\* Properties
\* ------------------------------------------------------------------------

\* The buildStatus objects in the live map, and those in the recent ring.
Live == {status[k] : k \in DOMAIN status}
Recent == {statusDone[i] : i \in 1..Len(statusDone)}

\* C1. Bounded concurrency: in every reachable state the live map holds at
\* most maxBuilds entries.
C1_BoundedConcurrency == Cardinality(DOMAIN status) <= maxBuilds

\* The live map is at a cap of one while another builder's candidate waits
\* on the work channel.
C1_Witness ==
  /\ maxBuilds = 1
  /\ Cardinality(DOMAIN status) = 1
  /\ \E b \in BuilderNames :
       /\ pollers[b].pc = "send"
       /\ builderRev(b, pollers[b].rev) \notin DOMAIN status

\* A build is in flight from the moment startBuilding allocated it until the
\* scheduler has received its completion.
InFlight(id) == waiter[id] \in {"wait", "send"}

\* C2. At most one in-flight build per (builder, rev): no two builds of one
\* key are in flight at once, and the scheduler never goes on to startBuilding
\* for a candidate whose key has a live entry.
C2_OnePerKey ==
  /\ [](\A i, j \in 1..Len(bs) :
          (i /= j /\ InFlight(i) /\ InFlight(j)) => bs[i].builderRev /= bs[j].builderRev)
  /\ [][(sched.pc = "select" /\ sched'.pc = "startBuilding")
          => sched'.work \notin DOMAIN status]_vars

\* A candidate is on the work channel for a key whose build has exited and
\* whose completion still waits on the done channel.
C2_Witness ==
  \E id \in 1..Len(bs), b \in BuilderNames :
    /\ waiter[id] = "send"
    /\ bs[id].builderRev \in DOMAIN status
    /\ pollers[b].pc = "send"
    /\ builderRev(b, pollers[b].rev) = bs[id].builderRev
    /\ sched.pc = "select"

\* C3. Recent-ring bound and FIFO eviction: the ring never holds more than
\* maxStatusDone entries; when it changes, a buildStatus that was live is put
\* last, and if the ring was full exactly its first entry is gone and the
\* others keep their order, each one place earlier.
C3_RingBound ==
  /\ [](Len(statusDone) <= maxStatusDone)
  /\ [][statusDone' /= statusDone =>
          LET n == Len(statusDone)
              m == Len(statusDone')
          IN /\ statusDone'[m] \in Live
             /\ IF n = maxStatusDone
                THEN /\ m = n
                     /\ \A i \in 1..(n - 1) : statusDone'[i] = statusDone[i + 1]
                ELSE /\ m = n + 1
                     /\ \A i \in 1..n : statusDone'[i] = statusDone[i]]_vars

\* markDone has appended to a full ring: the first retired build is gone, the
\* second is now first, and a build started in this run is last.
C3_Witness ==
  /\ Len(statusDone) = maxStatusDone
  /\ statusDone[1] = 2
  /\ statusDone[maxStatusDone] > maxStatusDone

\* C4 as claimed. Lookup coverage: getStatus(br) returns every buildStatus
\* admitted under br while it is in the live map or in the recent ring.
C4_LookupCoverage_Claimed ==
  \A id \in Live \cup Recent : getStatus(bs[id].builderRev) = id

\* C4 as amended. getStatus(br) returns a buildStatus admitted under br while
\* it is in the live map; while it is in the recent ring it is returned
\* whenever br has no live entry and no earlier entry of the ring has key br.
C4_LookupCoverage ==
  /\ \A id \in Live : getStatus(bs[id].builderRev) = id
  /\ \A i \in 1..Len(statusDone) :
       LET br == bs[statusDone[i]].builderRev
       IN (/\ br \notin DOMAIN status
           /\ \A j \in 1..(i - 1) : bs[statusDone[j]].builderRev /= br)
          => getStatus(br) = statusDone[i]

\* A key was built again after an earlier build of it completed: the earlier
\* build is in the ring, the later one live, and getStatus returns the later.
C4_Witness ==
  \E i \in 1..Len(statusDone) :
    LET br == bs[statusDone[i]].builderRev
    IN /\ br \in DOMAIN status
       /\ status[br] /= statusDone[i]
       /\ getStatus(br) = status[br]

\* C7 as claimed. When startBuilding returns, condUpdateImage returned nil only
\* if the stored tag equalled the observed one or this call's "docker load"
\* succeeded; a failed Head, Get or load made it return an error, and that
\* error is the one startBuilding returned.
C7_ImageCacheContract_Claimed ==
  sched.pc = "started" =>
    /\ sched.imgErr = NoErr => (sched.head = "nil" \/ sched.run = NoErr)
    /\ (sched.head = "error" \/ sched.get = "error" \/ sched.run = SomeErr)
         => sched.imgErr /= NoErr
    /\ sched.imgErr /= NoErr => sched.err = sched.imgErr

\* C8 as claimed. The stored tag of an image changes only in the step of a
\* condUpdateImage call whose "docker load" succeeded.
C8_TagOnlyOnLoad_Claimed ==
  [][\A img \in Images :
       images'[img].lastMod /= images[img].lastMod =>
         \E c \in Callers : /\ cu[c].pc = "load" /\ cu[c].img = img
                            /\ cu'[c].pc = "ret" /\ cu'[c].run = NoErr]_vars

\* A goroutine is between ii.mu.Lock() and the return of condUpdateImage.
InCall(c) == cu[c].pc \in {"head", "get", "load"}

\* C9. Image cache idempotence: for each image and each tag, the calls whose
\* Head observed that tag run "docker load" at most once between them; and no
\* two goroutines are inside condUpdateImage for the same image at once.
C9_OneLoadPerTag ==
  /\ \A k \in DOMAIN loads : loads[k] <= 1
  /\ \A c, d \in Callers : (c /= d /\ InCall(c) /\ InCall(d)) => cu[c].img /= cu[d].img

\* Two calls for one image are in progress at once and observed the same tag:
\* one ran the load, the other found the tag stored and ran none.
C9_Witness ==
  \E c, d \in Callers :
    /\ c /= d
    /\ cu[c].pc = "ret" /\ cu[d].pc = "ret"
    /\ cu[c].img = cu[d].img
    /\ cu[c].headTag = cu[d].headTag
    /\ cu[c].run /= "none" /\ cu[c].err = NoErr
    /\ cu[d].skipped
    /\ loads[<<cu[c].img, cu[c].headTag>>] = 1

\* C10. Launch failure creates nothing: a startBuilding that returns an error
\* allocates no buildStatus and starts no exit waiter and no log streamer; from
\* there the scheduler goes back to its select with the registry as it was;
\* and every waiter (the only sender on the done channel) belongs to a
\* buildStatus.
C10_LaunchFailure ==
  /\ [](Len(waiter) = Len(bs) /\ Len(streamer) = Len(bs) /\ Len(containers) = Len(bs))
  /\ [][(sched.pc = "startBuilding" /\ sched'.pc = "started" /\ sched'.err /= NoErr)
          => /\ sched'.st = Nil
             /\ UNCHANGED <<bs, waiter, streamer, status, statusDone>>]_vars
  /\ [][(sched.pc = "started" /\ sched.err /= NoErr)
          => /\ UNCHANGED <<status, statusDone>>
             /\ Len(bs') = Len(bs) /\ Len(waiter') = Len(waiter)
             /\ sched' /= sched => sched'.pc = "select"]_vars

\* startBuilding has returned an error while another build is live.
C10_Witness ==
  /\ sched.pc = "started"
  /\ sched.err /= NoErr
  /\ sched.imgErr = NoErr
  /\ Cardinality(DOMAIN status) = 1

\* C5. Output bound: after any Write calls the output buffer is no longer than
\* maxBufferSize and is the start of the stream offered; once maxBufferSize
\* bytes or more have been offered it is exactly the first maxBufferSize
\* bytes, a later Write adds nothing and returns 0; and Write returns the
\* number of bytes it kept and a nil error.
C5_OutputBound ==
  /\ [](/\ ByteLen(output) <= maxBufferSize
        /\ output = ByteTake(offered, maxBufferSize)
        /\ (ByteLen(offered) >= maxBufferSize => ByteLen(output) = maxBufferSize)
        /\ wret.err = NoErr)
  /\ [][/\ wret'.n = ByteLen(output') - ByteLen(output)
        /\ (ByteLen(offered) >= maxBufferSize => output' = output /\ wret'.n = 0)]_<<output, offered, wret, nwrites>>

\* Twice maxBufferSize bytes and more were offered, one Write was cut in its
\* middle and the last one kept nothing.
C5_Witness ==
  /\ ByteLen(offered) >= 2 * maxBufferSize
  /\ ByteLen(output) = maxBufferSize
  /\ Len(output) > 1
  /\ nwrites = MaxWrites
  /\ wret.n = 0

\* C6. Secret scrubbing: with a master key set, the body /logs serves for the
\* build holds no occurrence of the builder's key.
C6_SecretScrubbed ==
  (resp.served /\ builderKey(masterKeyCache, hmacSum) /= << >>)
    => Index(resp.body, builderKey(masterKeyCache, hmacSum)) = 0

\* /logs was served from an output where occurrences of the key overlap, and
\* the body has BUILDERKEY in it.
C6_Witness ==
  LET key == builderKey(masterKeyCache, hmacSum)
      text == ByteString(output)
  IN /\ key /= << >>
     /\ resp.served
     /\ resp.body = logs(output, key)
     /\ Index(resp.body, BUILDERKEY) > 0
     /\ \E i, j \in 1..(Len(text) - Len(key) + 1) :
          /\ i < j /\ j < i + Len(key)
          /\ SubSeq(text, i, i + Len(key) - 1) = key
          /\ SubSeq(text, j, j + Len(key) - 1) = key

\* C11 as claimed. Exit status recording: once a buildStatus is done,
\* succeeded is true exactly when its container exited with code 0.
C11_ExitStatus_Claimed ==
  \A id \in 1..Len(bs) :
    bs[id].done /= 0 =>
      (bs[id].succeeded <=> containers[bs[id].container].code = 0)

\* C12 as claimed. startBuilding returns a fresh running status: when
\* startBuilding has returned without error, up to the scheduler's setStatus
\* of what it returned, that buildStatus has a zero done time and succeeded
\* false.
C12_FreshStatus_Claimed ==
  (sched.pc = "started" /\ sched.err = NoErr)
    => (bs[sched.st].done = 0 /\ ~bs[sched.st].succeeded)

\* C13 as claimed. LIVE means running: every buildStatus in the live map has
\* a zero done time.
C13_LiveRunning_Claimed == \A id \in Live : bs[id].done = 0

\* C14. RECENT means finished: every buildStatus in the recent ring is not
\* in the live map and has a done time.
C14_RecentFinished == \A id \in Recent : id \notin Live /\ bs[id].done /= 0

\* A failed build is in the ring while its key is live again, in a build
\* that is already done.
C14_Witness ==
  \E id \in Recent, id2 \in Live :
    /\ bs[id].builderRev = bs[id2].builderRev
    /\ ~bs[id].succeeded
    /\ bs[id2].done /= 0

\* C20 as claimed. Registry accesses are locked: a goroutine that is reading the
\* live map or the recent ring holds statusMu, and the live map is not
\* written while a handler is at a read of it.
C20_RegistryLocked_Claimed ==
  /\ [](handler.pc \in {"copy", "render"} => statusMu = "handleStatus")
  /\ [][status' /= status => handler.pc \notin {"copy", "render"}]_vars

\* The builder containers running in the runtime: those of an image
\* "gobuilders/...".
runningBuilders ==
  Cardinality({i \in 1..Len(containers) :
                 /\ containers[i].state = "running"
                 /\ containers[i].image \in GobuildersTexts})

\* C15 as claimed. Admission rule: on receiving a candidate the scheduler
\* calls startBuilding exactly when fewer than maxBuilds entries are live, the
\* candidate has no live entry and no more than maxBuilds builder containers
\* are running; and a successful start is inserted under the candidate.
C15_AdmissionRule_Claimed ==
  /\ [][\A b \in BuilderNames :
          (sched.pc = "select" /\ pollers[b].pc = "send" /\ pollers'[b].pc = "poll")
            => ((sched'.pc = "startBuilding")
                  <=> (/\ Cardinality(DOMAIN status) < maxBuilds
                       /\ builderRev(b, pollers[b].rev) \notin DOMAIN status
                       /\ runningBuilders <= maxBuilds))]_vars
  /\ [][(sched.pc = "started" /\ sched.err = NoErr /\ sched'.pc = "select")
          => (/\ DOMAIN status' = DOMAIN status \cup {sched.work}
              /\ status'[sched.work] = sched.st)]_vars

\* C16 as claimed. Cap enforced against the runtime: no container is started
\* that brings the builder containers running in the runtime above maxBuilds.
C16_RuntimeCap_Claimed ==
  [][Len(containers') > Len(containers) => runningBuilders' <= maxBuilds]_vars

\* This step is a call markDone(work): of a completion of any key, or of the
\* completion an exit waiter sends.
MarkDoneCalled(work) ==
  \/ sched.pc = "select" /\ sched'.pc = "markDone" /\ sched'.work = work
  \/ \E id \in 1..Len(waiter) :
       waiter[id] = "send" /\ waiter'[id] = "rm" /\ bs[id].builderRev = work

\* C17. Spurious completion is a no-op: markDone of a key that is not live
\* leaves the live map and the recent ring as they were; markDone of a live
\* key removes that entry and no other from the live map and puts its
\* buildStatus last in the ring, behind the entries that were there (but the
\* first, when the ring was full).
C17_SpuriousDoneNoOp ==
  [][\A work \in BuilderRevs :
       MarkDoneCalled(work) =>
         IF work \notin DOMAIN status
         THEN status' = status /\ statusDone' = statusDone
         ELSE /\ DOMAIN status' = DOMAIN status \ {work}
              /\ \A k \in DOMAIN status' : status'[k] = status[k]
              /\ statusDone' =
                   (IF Len(statusDone) = maxStatusDone
                    THEN Tail(statusDone) ELSE statusDone) \o <<status[work]>>]_vars

\* markDone has returned from a key that was not live, with the ring full and
\* another key live: nothing was evicted, the live entry is still there.
C17_Witness ==
  /\ sched.pc = "markDone"
  /\ sched.work \notin DOMAIN status
  /\ Len(statusDone) = maxStatusDone
  /\ statusDone[1] = 1
  /\ statusDone[maxStatusDone] = maxStatusDone
  /\ DOMAIN status /= {}

\* This step is the scheduler receiving builder b's candidate from workc.
Receipt(b) ==
  sched.pc = "select" /\ pollers[b].pc = "send" /\ pollers'[b].pc = "poll"

\* One builder more than the cap, each builder's candidate received once and
\* dealt with, no completion processed.
OneRound ==
  /\ sched.pc = "select"
  /\ Cardinality(BuilderNames) = maxBuilds + 1
  /\ \A b \in BuilderNames : hist.offers[b] = 1
  /\ Len(statusDone) = 0

C19_RebuildOnRequest ==
  /\ [](Len(containers) <= hist.admitted /\ hist.admitted <= received)
  /\ [][Len(containers') > Len(containers)
          => (/\ sched.pc = "startBuilding"
              /\ Len(containers') = Len(containers) + 1
              /\ bs'[Len(bs')].builderRev = sched.work)]_vars
  /\ [][(sched'.pc = "startBuilding" /\ sched.pc /= "startBuilding")
          => \E b \in BuilderNames :
               /\ Receipt(b)
               /\ sched'.work = builderRev(b, pollers[b].rev)
               /\ hist'.offers[b] = hist.offers[b] + 1]_vars
  /\ [][statusDone' /= statusDone
          => (sched.pc = "select" /\ sched' = sched /\ containers' = containers)]_vars
  /\ [][\A b \in BuilderNames :
          LET work == builderRev(b, pollers[b].rev)
          IN (/\ Receipt(b)
              /\ \E id \in Recent : bs[id].builderRev = work
              /\ work \notin DOMAIN status
              /\ Cardinality(DOMAIN status) < maxBuilds)
               => (sched'.pc = "startBuilding" /\ sched'.work = work)]_vars

\* A key whose build failed and was retired was received again and is
\* building again.
C19_Witness ==
  /\ sched.pc = "started"
  /\ sched.err = NoErr
  /\ \E id \in Recent : bs[id].builderRev = sched.work /\ ~bs[id].succeeded
  /\ Len(containers) = 2
  /\ received >= 2

\* This step is the reaper's "docker rm -v" of container id (the exit
\* waiter's own "docker rm" moves the waiter on).
ReaperRemoved(id) ==
  /\ containers[id].state /= "removed"
  /\ containers'[id].state = "removed"
  /\ waiter' = waiter

\* C21 as claimed. Container reaper never touches a live build: a container
\* the reaper removes has exited and is not the container of a buildStatus
\* that is in the live map at that moment.
C21_ReaperSparesLive_Claimed ==
  [][\A id \in 1..Len(containers) :
       ReaperRemoved(id) =>
         (/\ containers[id].state = "exited"
          /\ \A l \in Live : bs[l].container /= id)]_vars

\* The delete-at values that write an integer, with the integer.
Deadlines ==
  { <<<<"5">>, 5>>, <<<<"1", "0">>, 10>>, <<<<"1", "5">>, 15>>, <<<<"-", "5">>, -5>>,
    <<<<"+", "5">>, 5>>, <<<<"0", "5">>, 5>> }

\* The instance has a delete-at item whose value writes an integer Unix time
\* earlier than now.
Expired(inst, unixNow) ==
  /\ inst.metadata
  /\ \E k \in 1..Len(inst.items) :
       /\ inst.items[k].key = "delete-at"
       /\ \E d \in Deadlines : d[1] = inst.items[k].value /\ d[2] < unixNow

\* C22. VM reaper deletes exactly the expired: after a pass over the listed
\* instances a delete was issued for an instance exactly when it has a
\* delete-at item whose value is an integer earlier than the current time,
\* once per such item; and the pass went through the whole list.
C22_DeletesExpired ==
  vm.pc = "done" =>
    /\ vm.i = Len(vm.list) + 1
    /\ \A n \in 1..Len(vm.list) :
         (\E k \in 1..Len(vm.deleted) : vm.deleted[k] = n) <=> Expired(vm.list[n], vm.now)
    /\ \A k \in 1..Len(vm.deleted) : \A l \in 1..Len(vm.deleted) :
         vm.deleted[k] = vm.deleted[l] => k = l

\* A pass is over in which a malformed delete-at value was logged on the
\* first instance and the second instance, expired, was deleted.
C22_Witness ==
  /\ vm.pc = "done"
  /\ Len(vm.list) = 2
  /\ vm.list[1].items = <<[key |-> "delete-at", value |-> <<"1", "x">>]>>
  /\ vm.logged = 1
  /\ vm.deleted = <<2>>
  /\ vm.now = 10

\* C23. Master key is loaded once: however the calls of masterKey() interleave,
\* loadKey runs at most once, a call that has returned returned after loadKey
\* had finished, and any two calls that have returned returned the same bytes.
C23_KeyLoadedOnce ==
  /\ keyOnce.runs <= 1
  /\ \A c \in KeyCallers :
       keyOnce.calls[c].pc = "returned" =>
         /\ keyOnce.loaded
         /\ \A d \in KeyCallers :
              keyOnce.calls[d].pc = "returned" => keyOnce.calls[d].ret = keyOnce.calls[c].ret

\* Three calls have returned the key "k": one ran loadKey, one waited for it
\* on the mutex of keyOnce, one found keyOnce done.
C23_Witness ==
  /\ \A c \in KeyCallers : keyOnce.calls[c].pc = "returned" /\ keyOnce.calls[c].ret = <<"k">>
  /\ \E c \in KeyCallers : keyOnce.calls[c].path = "loader"
  /\ \E c \in KeyCallers : keyOnce.calls[c].path = "slow"
  /\ \E c \in KeyCallers : keyOnce.calls[c].path = "fast"
  /\ keyOnce.runs = 1

\* C24. Recent ring reflects completion order: of two entries of the recent
\* ring, the one at the earlier position has a done time no later than that
\* of the one at the later position.
C24_RingInDoneOrder_Claimed ==
  \A i \in 1..Len(statusDone) : \A j \in 1..Len(statusDone) :
    i < j => bs[statusDone[i]].done <= bs[statusDone[j]].done

\* s read left to right, each occurrence of a non-empty key met becoming
\* BUILDERKEY and every other byte kept; s itself when key is empty.
RECURSIVE Scrubbed(_, _)
Scrubbed(s, key) ==
  IF key = << >> \/ Len(s) < Len(key) THEN s
  ELSE IF SubSeq(s, 1, Len(key)) = key
  THEN BUILDERKEY \o Scrubbed(SubSeq(s, Len(key) + 1, Len(s)), key)
  ELSE <<Head(s)>> \o Scrubbed(Tail(s), key)

\* C25. Log fetch returns the captured output: the body /logs serves is the
\* output with every occurrence of the builder's key replaced by BUILDERKEY and
\* every other byte unchanged and in order; with an empty key (no master key)
\* it is the output unchanged.
C25_LogsAreOutput_Claimed ==
  [][resp' /= resp =>
       resp'.body = Scrubbed(ByteString(output), builderKey(masterKeyCache, hmacSum))]_vars

\* This step is the scheduler receiving builder b's candidate and turning it
\* away.
Denial(b) ==
  /\ hist'.offers[b] = hist.offers[b] + 1
  /\ hist'.admitted = hist.admitted

\* C26. Denied candidate has no effect: when the scheduler turns a candidate
\* away, the live map, the recent ring, the builds and the containers are
\* unchanged, the scheduler is back at its select holding nothing and the
\* poller's send is over, so nothing keeps the candidate; and a startBuilding
\* begins only in the step that receives its candidate from a poller.
C26_DeniedNoEffect ==
  /\ [][\A b \in BuilderNames :
          Denial(b) =>
            /\ status' = status /\ statusDone' = statusDone
            /\ bs' = bs /\ containers' = containers
            /\ waiter' = waiter /\ streamer' = streamer
            /\ sched' = AtSelect
            /\ pollers' = [pollers EXCEPT ![b] = [pc |-> "poll", rev |-> ""]]]_vars
  /\ [][(sched'.pc = "startBuilding" /\ sched.pc /= "startBuilding")
          => \E b \in BuilderNames :
               /\ pollers[b].pc = "send"
               /\ sched'.work = builderRev(b, pollers[b].rev)
               /\ hist'.offers[b] = hist.offers[b] + 1
               /\ hist'.admitted = hist.admitted + 1]_vars

\* One builder's candidate was admitted and is live; its second candidate, a
\* duplicate, and the candidate of another builder, at the cap, were turned
\* away, and the scheduler is at its select with one live build.
C26_Witness ==
  \E b \in BuilderNames : \E o \in BuilderNames \ {b} :
    /\ hist.offers[b] = 2 /\ hist.offers[o] = 1
    /\ hist.admitted = 1
    /\ hist.denied[o] = "denied"
    /\ \E w \in DOMAIN status : w.name = b
    /\ Cardinality(DOMAIN status) = 1
    /\ sched = AtSelect
    /\ \A p \in BuilderNames : pollers[p].pc = "poll"

\* The scheduler is inside startBuilding: condUpdateImage's HEAD and GET and
\* "docker load", then "docker run".
SchedInExternalCall == sched.pc = "startBuilding"

\* An exit waiter is at its send on donec, or a poller at its send on workc.
SenderWaiting ==
  \/ \E id \in 1..Len(waiter) : waiter[id] = "send"
  \/ \E b \in BuilderNames : pollers[b].pc = "send"

\* C27. Scheduler blocks only on its select: the scheduler is never in an
\* image fetch or a container launch while a completion waits on the done
\* channel or a poller on the candidate channel.
C27_SchedOnlySelect_Claimed == ~(SchedInExternalCall /\ SenderWaiting)

\* Goroutine t is at a Lock of a mutex that is held.
Blocked(t) ==
  /\ InProgram(t)
  /\ OpAt(t).op = "lock"
  /\ lk.holder[OpAt(t).m] /= ""

\* C28. Registry mutex is never held across I/O: a goroutine about to make an
\* external call, to send or receive on a channel or to write a response does
\* not hold statusMu; and handleStatus makes its copies of the live and recent
\* collections while it holds statusMu.
C28_NoIOUnderStatusMu ==
  \A t \in LockTasks :
    InProgram(t) =>
      /\ OpAt(t).op = "io" => lk.holder["statusMu"] /= t
      /\ OpAt(t).m \in {"copy active", "copy recent"} => lk.holder["statusMu"] = t

\* handleStatus, its copies made and statusMu released, is writing the page
\* while the scheduler holds statusMu in setStatus.
C28_Witness ==
  /\ InProgram("status")
  /\ OpAt("status") = IO("http write")
  /\ lk.pc["status"] > 4
  /\ InProgram("sched")
  /\ OpAt("sched") = Mem("setStatus")
  /\ lk.holder["statusMu"] = "sched"

\* C29. Locks are leaf-level: a goroutine at a Lock of statusMu, st.mu or ii.mu
\* holds none of them, so the holder of a mutex another goroutine waits for
\* is never itself waiting for a mutex.
C29_LeafLocks ==
  \A t \in LockTasks :
    /\ (InProgram(t) /\ OpAt(t).op = "lock") => \A m \in Mutexes : lk.holder[m] /= t
    /\ Blocked(t) => ~Blocked(lk.holder[OpAt(t).m])

\* handleStatus waits for st.mu, which the exit waiter holds in setDone, and
\* handleLogs waits for statusMu, which the scheduler holds in markDone.
C29_Witness ==
  /\ Blocked("status") /\ OpAt("status").m = "st.mu"
  /\ lk.holder["st.mu"] = "waiter"
  /\ Blocked("logs") /\ OpAt("logs").m = "statusMu"
  /\ lk.holder["statusMu"] = "sched"
  /\ OpAt("sched") = Mem("markDone")

\* The answer is one to send a candidate for: the Get succeeded with status
\* 200, the body decoded, Kind is "build-go-commit" and Hash is not empty.
IsCandidate(res) ==
  /\ res.getErr = NoErr
  /\ res.status = 200
  /\ res.decodeErr = NoErr
  /\ res.kind = "build-go-commit"
  /\ res.hash /= ""

\* C30. Poller candidate filter: a poller at the end of a poll has sent
\* (builder, Hash) if the answer was one to send a candidate for and nothing
\* otherwise; it waits at its send only for such an answer; and from the end
\* of a poll its only step is to its next cycle.
C30_CandidateFilter ==
  /\ [](\A b \in BuilderNames :
          /\ poll[b].pc = "sleep" =>
               poll[b].sent = IF IsCandidate(poll[b].res)
                              THEN builderRev(b, poll[b].res.hash)
                              ELSE builderRev("", "")
          /\ poll[b].pc = "send" => IsCandidate(poll[b].res))
  /\ [][\A b \in BuilderNames :
          (poll[b].pc = "sleep" /\ poll'[b] /= poll[b]) => poll'[b].pc = "poll"]_vars

\* One poller has sent its candidate; the other got a 200 answer that decoded,
\* with a Hash but another Kind, and sent nothing.
C30_Witness ==
  \E b \in BuilderNames : \E o \in BuilderNames \ {b} :
    /\ poll[b].pc = "sleep"
    /\ poll[b].sent = builderRev(b, "aaaa")
    /\ poll[o].pc = "sleep"
    /\ poll[o].res = [getErr |-> NoErr, status |-> 200, decodeErr |-> NoErr,
                      kind |-> "benchmark-go-commit", hash |-> "aaaa"]
    /\ poll[o].sent = builderRev("", "")

\* C31. Poller back-pressure: a poller at its send on workc stays there, with
\* the same candidate, until a step in which the scheduler, at its select,
\* receives that candidate and decides on it: it is admitted and is the work of
\* the startBuilding that begins, or it is turned away; no other step ends or
\* changes a send.
C31_BackPressure ==
  [][\A b \in BuilderNames :
       (pollers[b].pc = "send" /\ pollers'[b] /= pollers[b]) =>
         /\ sched.pc = "select"
         /\ pollers'[b].pc = "poll"
         /\ hist'.offers[b] = hist.offers[b] + 1
         /\ \/ /\ hist'.admitted = hist.admitted + 1
               /\ sched'.pc = "startBuilding"
               /\ sched'.work = builderRev(b, pollers[b].rev)
            \/ /\ hist'.admitted = hist.admitted
               /\ sched' = sched]_vars

\* A poller whose first candidate was received waits at its send with its
\* second while the scheduler is in startBuilding for another builder.
C31_Witness ==
  \E b \in BuilderNames :
    /\ pollers[b].pc = "send"
    /\ hist.offers[b] = 1
    /\ sched.pc = "startBuilding"
    /\ sched.work.name /= b

\* C32 as claimed. Stored tag is the one observed by the metadata request:
\* when a condUpdateImage call has run "docker load" and returns nil, the tag
\* it leaves in ii.lastMod is the one its http.Head answered.
C32_StoredTagIsHeadTag_Claimed ==
  [][\A c \in Callers :
       (cu[c].pc = "load" /\ cu'[c].pc = "ret" /\ cu'[c].err = NoErr)
         => images'[cu[c].img].lastMod = cu[c].headTag]_vars

\* C33. VM reaper survives errors: at the end of a cycle every zone has had
\* its pass, whatever the passes before it came to, and a pass that got its
\* list went through all the instances listed, whatever the deletes came to;
\* from the sleep the reaper goes to the first zone of the next cycle; and,
\* its calls returning, a reaper that started its loop always gets to the end
\* of the cycle and from there to the next one.
C33_ReaperSurvives ==
  /\ [](vmr.pc = "sleep" =>
          \A z \in 1..Len(Zones) :
            /\ vmr.results[z] /= "none"
            /\ vmr.results[z] = "done" => vmr.visited[z] = vmr.listed[z])
  /\ [][(vmr.pc = "sleep" /\ vmr' /= vmr) => (vmr'.pc = "zone" /\ vmr'.z = 1)]_vars
  /\ (vmr.pc \in {"zone", "insts"}) ~> (vmr.pc = "sleep")
  /\ (vmr.pc = "sleep") ~> (vmr.pc = "zone")

\* A cycle is over in which the first zone's list failed, the second zone's
\* project id was not to be had, and in the third a delete failed on the
\* first of two instances.
C33_Witness ==
  /\ vmr.pc = "sleep"
  /\ vmr.results = <<"listErr", "projErr", "done">>
  /\ vmr.failed
  /\ vmr.listed[3] = 2
  /\ vmr.visited[3] = 2

\* C34 as claimed. VM reaper is gated on the compute scope: a call to the
\* compute API has been issued only if the scopes of the default credential
\* include the read-write compute scope, and without it the reaper is
\* disabled.
C34_GatedOnComputeScope_Claimed ==
  /\ vmr.issued => ComputeScope \in vmr.scopes
  /\ (vmr.pc /= "start" /\ ComputeScope \notin vmr.scopes) => vmr.pc = "disabled"

\* The exit waiter's steps come in the order of its code: setDone, then the
\* send on donec, which ends when the scheduler at its select receives it and
\* retires the build, then "docker rm".
WaiterInOrder ==
  [][\A id \in 1..Len(waiter) :
       waiter'[id] /= waiter[id] =>
         \/ /\ waiter[id] = "wait" /\ waiter'[id] = "send"
            /\ bs'[id].done = now
         \/ /\ waiter[id] = "send" /\ waiter'[id] = "rm"
            /\ sched.pc = "select"
            /\ id \in Live /\ id \notin Live'
            /\ statusDone'[Len(statusDone')] = id
         \/ /\ waiter[id] = "rm" /\ waiter'[id] = "end"
            /\ containers'[bs[id].container].state = "removed"]_vars

\* A buildStatus in the live map is in the end out of it and in the recent ring.
EventuallyRetired ==
  \A id \in 1..MaxLaunch : (id \in Live) ~> (id \notin Live /\ id \in Recent)

\* C35. Every build is eventually retired: with containers that exit,
\* "docker wait" returning and a scheduler that comes back to a select fair to
\* donec, every buildStatus put in the live map is in the end removed from it
\* and appended to the recent ring; and the exit waiter does setDone, then its
\* send, then the removal of the container, the last only after the scheduler
\* received the completion.
C35_EventuallyRetired == EventuallyRetired /\ WaiterInOrder

\* A build that failed is in the recent ring and out of the live map, its
\* exit waiter at its end and its container removed, while another is live.
C35_Witness ==
  \E id \in Recent :
    /\ id \notin Live
    /\ waiter[id] = "end"
    /\ bs[id].done > 0 /\ ~bs[id].succeeded
    /\ containers[bs[id].container].state = "removed"
    /\ Live /= {}

\* ------------------------------------------------------------------------
\* The commit watchers: main's loop, startWatching, restartWatcherSoon
\* ------------------------------------------------------------------------

WatchFrame ==
  /\ UNCHANGED <<vm, keyOnce, lk, poll, vmr>>
  /\ UNCHANGED coordVars
  /\ UNCHANGED <<remote, cu, loads>>
  /\ UNCHANGED outVars
  /\ UNCHANGED regVars

\* main's "for _, watcher := range watchers": the call of startWatching for a
\* configuration begins; main is not inside the call for another one.
WatchCall(r) ==
  /\ ~watch[r].called
  /\ \A q \in WatchRepos : watch[q].called => watch[q].tries >= 1
  /\ watch' = [watch EXCEPT ![r].called = TRUE, ![r].attempts = @ + 1]
  /\ UNCHANGED images
  /\ WatchFrame

\* What "docker run -d" of the watcher may do.
WatchRunResults == {NoErr, SomeErr}

\* startWatching's deferred function with the test of err taken out.
deferRestarts_Always(err) == TRUE

\* defer func() { if err != nil { restartWatcherSoon(conf) } }()
deferRestarts(err) == err /= NoErr

\* startWatching: condUpdateImage("go-commit-watcher"), then "docker run -d";
\* either error is returned through the named result, which the deferred
\* function reads; past both, the goroutine that waits for the container is
\* started.
startWatching(r, hd, gt, runErr, dockerErr) ==
  LET img == "go-commit-watcher"
      res == condUpdateImage(images[img].lastMod, hd, gt, runErr)
      err == startErr(res.err, dockerErr)
  IN /\ lockFree(img)
     /\ images' = [images EXCEPT ![img].lastMod = res.lastMod]
     /\ watch' = [watch EXCEPT
          ![r].attempts = @ - 1,
          ![r].tries = @ + 1,
          ![r].fails = IF err /= NoErr THEN @ + 1 ELSE @,
          ![r].timers = IF deferRestarts(err) THEN @ + 1 ELSE @,
          ![r].cs = IF err = NoErr THEN Append(@, "running") ELSE @,
          ![r].wt = IF err = NoErr THEN Append(@, "wait") ELSE @]

\* A call of startWatching, by main or by a restart timer, runs and returns.
WatchStart(r) ==
  /\ watch[r].attempts > 0
  /\ LET lastMod == images["go-commit-watcher"].lastMod
         tag == remote["go-commit-watcher"]
     IN \E hd \in Responses(tag) :
        \E gt \in IF afterHead(lastMod, hd) = "get" THEN Responses(tag) ELSE {hd} :
        \E runErr \in IF afterHead(lastMod, hd) = "get" /\ afterGet(gt) = "load"
                      THEN RunResults ELSE {NoErr} :
        \E dockerErr \in IF condUpdateImage(lastMod, hd, gt, runErr).err = NoErr
                         THEN WatchRunResults ELSE {SomeErr} :
          startWatching(r, hd, gt, runErr, dockerErr)
  /\ WatchFrame

\* time.AfterFunc(30*time.Second, func() { startWatching(conf) }): the timer
\* fires and its function calls startWatching.
WatchTimer(r) ==
  /\ watch[r].timers > 0
  /\ watch[r].tries + watch[r].attempts < MaxStarts
  /\ watch' = [watch EXCEPT ![r].timers = @ - 1, ![r].attempts = @ + 1]
  /\ UNCHANGED images
  /\ WatchFrame

\* A watcher container exits.
WatchExit(r, i) ==
  /\ i \in 1..Len(watch[r].cs)
  /\ watch[r].cs[i] = "running"
  /\ watch' = [watch EXCEPT ![r].cs[i] = "exited"]
  /\ UNCHANGED images
  /\ WatchFrame

\* cleanUpOldContainers removes an exited watcher container.
WatchReaperRm(r, i) ==
  /\ i \in 1..Len(watch[r].cs)
  /\ watch[r].cs[i] = "exited"
  /\ watch' = [watch EXCEPT ![r].cs[i] = "removed"]
  /\ UNCHANGED images
  /\ WatchFrame

\* The waiting goroutine's exec.Command("docker", "wait", container).Run():
\* it returns once the container has exited or is gone; its error is dropped.
WatchWait(r, i) ==
  /\ i \in 1..Len(watch[r].wt)
  /\ watch[r].wt[i] = "wait"
  /\ watch[r].cs[i] \in {"exited", "removed"}
  /\ watch' = [watch EXCEPT ![r].wt[i] = "rm"]
  /\ UNCHANGED images
  /\ WatchFrame

\* The waiting goroutine's "docker rm -v", log line and restartWatcherSoon.
WatchRm(r, i) ==
  /\ i \in 1..Len(watch[r].wt)
  /\ watch[r].wt[i] = "rm"
  /\ watch' = [watch EXCEPT ![r].wt[i] = "end", ![r].cs[i] = "removed",
                            ![r].timers = @ + 1]
  /\ UNCHANGED images
  /\ WatchFrame

NextWatch ==
  \/ \E r \in WatchRepos : WatchCall(r)
  \/ \E r \in WatchRepos : WatchStart(r)
  \/ \E r \in WatchRepos : WatchTimer(r)
  \/ \E r \in WatchRepos : \E i \in 1..Len(watch[r].cs) : WatchExit(r, i)
  \/ \E r \in WatchRepos : \E i \in 1..Len(watch[r].cs) : WatchReaperRm(r, i)
  \/ \E r \in WatchRepos : \E i \in 1..Len(watch[r].wt) : WatchWait(r, i)
  \/ \E r \in WatchRepos : \E i \in 1..Len(watch[r].wt) : WatchRm(r, i)

InitWatch == InitVMs

SpecWatch == InitWatch /\ [][NextWatch]_vars

\* The buildStatus was retired and has since been evicted from the ring: its
\* completion was received and it is in neither collection.
Gone(id) ==
  /\ waiter[id] \in {"rm", "end"}
  /\ id \notin Live
  /\ id \notin Recent

\* C36. BuildStatus lifecycle is one-way: no buildStatus is in the live map
\* and in the recent ring at once; none is in the ring twice; one enters the
\* ring only from the live map; one in the ring does not enter the live map;
\* and one evicted from the ring enters neither collection again.
C36_OneWay ==
  /\ [](Live \cap Recent = {})
  /\ [](\A i \in 1..Len(statusDone) : \A j \in 1..Len(statusDone) :
          statusDone[i] = statusDone[j] => i = j)
  /\ [][\A id \in 1..Len(bs) :
          /\ (id \in Recent' /\ id \notin Recent) => id \in Live
          /\ id \in Recent => id \notin Live'
          /\ Gone(id) => (id \notin Live' /\ id \notin Recent')]_vars

\* The oldest buildStatus was evicted from the full ring by a build of this
\* run, and a later build of the same builder and revision is live.
C36_Witness ==
  /\ Gone(1)
  /\ Len(statusDone) = maxStatusDone
  /\ \E l \in Live : bs[l].builderRev = bs[1].builderRev

\* The scheduler has run setStatus for the build: it is past line 173 for it.
StatusSet(id) == ~(sched.pc = "started" /\ sched.st = id)

\* C37. Completions always match a live entry: a started build sends one
\* completion on donec; the scheduler receives it only after setStatus for
\* that build has run, and at that moment status[br] is the buildStatus of the
\* build that sent it, so markDone moves an entry and its no-op branch is
\* not taken.
C37_CompletionMatchesLive ==
  /\ [](\A id \in 1..Len(waiter) :
          (waiter[id] \in {"wait", "send"} /\ StatusSet(id))
            => /\ bs[id].builderRev \in DOMAIN status
               /\ status[bs[id].builderRev] = id)
  /\ [][\A id \in 1..Len(waiter) :
          /\ (waiter[id] = "send" /\ waiter'[id] # "send")
               => /\ StatusSet(id)
                  /\ bs[id].builderRev \in DOMAIN status
                  /\ status[bs[id].builderRev] = id
                  /\ bs[id].builderRev \notin DOMAIN status'
                  /\ statusDone'[Len(statusDone')] = id
          /\ waiter[id] \in {"rm", "end"} => waiter'[id] \in {"rm", "end"}]_vars

\* The completions of two builds of one builder and revision were received,
\* the second one retired into the ring.
C37_Witness ==
  \E id \in 1..Len(waiter) :
    /\ waiter[id] \in {"rm", "end"}
    /\ id \in Recent
    /\ \E first \in 1..(id - 1) :
         /\ bs[first].builderRev = bs[id].builderRev
         /\ waiter[first] \in {"rm", "end"}

\* What keeps a configuration's watcher going: calls of startWatching in
\* progress, goroutines waiting for a container they have not yet followed
\* with a restart, and restart timers pending.
Chain(r) ==
  watch[r].attempts + watch[r].timers
    + Cardinality({i \in 1..Len(watch[r].wt) : watch[r].wt[i] \in {"wait", "rm"}})

\* The configuration's watcher containers that are running.
Running(r) == {i \in 1..Len(watch[r].cs) : watch[r].cs[i] = "running"}

====
